---- MODULE Spec2Model ----
(***************************************************************************)
(* Degree-requirement validation engine of mactrack (Service.ValidatePlan, *)
(* src/pkg/handlers_auth.go:221-420) as a state machine.                   *)
(*                                                                         *)
(* Go strings are sequences of one-character strings, so that TrimSpace,   *)
(* SplitN, Atoi, ToUpper and Join are computed the way the library         *)
(* computes them.  One invocation of ValidatePlan is one behaviour: Init   *)
(* draws the arguments (plan items, program tree) and the answers of the   *)
(* requisites table, the actions are the loop iterations of the function.  *)
(***************************************************************************)
EXTENDS Integers, Sequences, FiniteSets, TLC

(***************************************************************************)
(* Bounds of the explored inputs.                                          *)
(***************************************************************************)
MaxSlots == 3   \* course slots of the group in the slot-walk inputs
MaxPlan  == 2   \* plan items
MaxRows  == 2   \* PREREQ rows returned for one course
MaxNodes == 3   \* requirement groups in the tree inputs
MaxLen   == 3   \* characters of a course number passed to unitsFromCourseNumber

\* const defaultUnitsPerCourse = 3
defaultUnitsPerCourse == 3

(***************************************************************************)
(* Strings.                                                                *)
(***************************************************************************)
Digits == {"0", "1", "2", "3", "4", "5", "6", "7", "8", "9"}

DigitVal(c) ==
  CASE c = "0" -> 0 [] c = "1" -> 1 [] c = "2" -> 2 [] c = "3" -> 3
    [] c = "4" -> 4 [] c = "5" -> 5 [] c = "6" -> 6 [] c = "7" -> 7
    [] c = "8" -> 8 [] c = "9" -> 9

\* unicode.IsSpace restricted to the characters of the model
IsSpace(c) == c \in {" ", "\t"}

RECURSIVE TrimLeft(_)
TrimLeft(s) ==
  IF s # <<>> /\ IsSpace(Head(s)) THEN TrimLeft(Tail(s)) ELSE s

RECURSIVE TrimRight(_)
TrimRight(s) ==
  IF s # <<>> /\ IsSpace(s[Len(s)]) THEN TrimRight(SubSeq(s, 1, Len(s) - 1)) ELSE s

\* strings.TrimSpace; the argument is evaluated once, then trimmed
TrimSpace(s) == CHOOSE r \in {TrimRight(TrimLeft(v)) : v \in {s}} : TRUE

\* strings.Index(s, " "): position of the first blank, 0 when there is none
IndexSpace(s) ==
  IF \E p \in 1..Len(s) : s[p] = " "
    THEN CHOOSE p \in 1..Len(s) : s[p] = " " /\ \A q \in 1..(p - 1) : s[q] # " "
    ELSE 0

\* strings.SplitN(s, " ", 2): one piece when s holds no blank, else the text
\* before the first blank and the whole rest
SplitN2(s) ==
  IF IndexSpace(s) = 0
    THEN <<s>>
    ELSE <<SubSeq(s, 1, IndexSpace(s) - 1), SubSeq(s, IndexSpace(s) + 1, Len(s))>>

RECURSIVE DecimalValue(_)
DecimalValue(s) ==
  IF s = <<>> THEN 0 ELSE 10 * DecimalValue(SubSeq(s, 1, Len(s) - 1)) + DigitVal(s[Len(s)])

\* strconv.Atoi: an optional sign followed by one or more decimal digits
Atoi(s) ==
  LET signed == s # <<>> /\ s[1] \in {"+", "-"}
      body   == IF signed THEN Tail(s) ELSE s
  IN  IF body = <<>> \/ \E p \in 1..Len(body) : body[p] \notin Digits
        THEN [err |-> TRUE, n |-> 0]
        ELSE [err |-> FALSE,
              n   |-> IF signed /\ s[1] = "-" THEN 0 - DecimalValue(body)
                                              ELSE DecimalValue(body)]

ToUpperChar(c) ==
  CASE c = "a" -> "A" [] c = "c" -> "C" [] c = "d" -> "D" [] c = "e" -> "E"
    [] c = "g" -> "G" [] c = "i" -> "I" [] c = "l" -> "L" [] c = "m" -> "M"
    [] c = "n" -> "N" [] c = "o" -> "O" [] c = "p" -> "P" [] c = "r" -> "R"
    [] c = "s" -> "S" [] c = "t" -> "T" [] OTHER -> c

\* strings.ToUpper
ToUpper(s) == [p \in 1..Len(s) |-> ToUpperChar(s[p])]

\* strings.EqualFold on the ASCII strings of the model
EqualFold(s, t) == ToUpper(s) = ToUpper(t)

RECURSIVE Join(_, _)
\* strings.Join
Join(parts, sep) ==
  IF parts = <<>> THEN <<>>
  ELSE IF Len(parts) = 1 THEN parts[1]
  ELSE parts[1] \o sep \o Join(Tail(parts), sep)

(***************************************************************************)
(* unitsFromCourseNumber                                                   *)
(***************************************************************************)
\* variant: the test n == 0 is missing
unitsFromCourseNumber_NoZeroTest(courseNumber, defaultUnits) ==
  IF Len(courseNumber) < 2 THEN defaultUnits
  ELSE LET suffix == SubSeq(courseNumber, Len(courseNumber) - 1, Len(courseNumber))
           r      == Atoi(suffix)
       IN  IF r.err THEN defaultUnits ELSE r.n

unitsFromCourseNumber(courseNumber, defaultUnits) ==
  IF Len(courseNumber) < 2 THEN defaultUnits
  ELSE LET suffix == SubSeq(courseNumber, Len(courseNumber) - 1, Len(courseNumber))
           r      == Atoi(suffix)
       IN  IF r.err \/ r.n = 0 THEN defaultUnits ELSE r.n

(***************************************************************************)
(* Values of the explored inputs.                                          *)
(***************************************************************************)
sCS   == <<"C", "S">>
n1A03 == <<"1", "A", "0", "3">>
n1B03 == <<"1", "B", "0", "3">>
n1P13 == <<"1", "P", "1", "3">>
n4ZZ  == <<"4", "Z", "Z">>
n2C03 == <<"2", "C", "0", "3">>
n2D_5 == <<"2", "D", "-", "5">>

COMPLETED   == <<"C", "O", "M", "P", "L", "E", "T", "E", "D">>
PLANNED     == <<"P", "L", "A", "N", "N", "E", "D">>
IN_PROGRESS == <<"I", "N", "_", "P", "R", "O", "G", "R", "E", "S", "S">>
DROPPED     == <<"D", "R", "O", "P", "P", "E", "D">>
planned     == <<"p", "l", "a", "n", "n", "e", "d">>
completed   == <<"c", "o", "m", "p", "l", "e", "t", "e", "d">>

\* "CS 1A03" etc., as the scraper stores course_code: SUBJECT, one blank, NUMBER
Code(subject, number) == subject \o <<" ">> \o number

\* type PlanItem (the fields ValidatePlan reads)
PlanItem(subject, number, status) ==
  [Subject |-> subject, CourseNumber |-> number, Status |-> status]

\* type RequirementCourse (the fields ValidatePlan reads); an adhoc row has
\* course_code NULL, loaded as ""
Slot(code, orWithNext) == [CourseCode |-> code, IsOrWithNext |-> orWithNext]

\* type RequirementGroup; a nil *int is <<>>, a pointer to v is <<v>>
Group(heading, unitsRequired, coursesRequired, isContainer, courses, children) ==
  [Heading |-> heading, UnitsRequired |-> unitsRequired,
   CoursesRequired |-> coursesRequired, IsContainer |-> isContainer,
   Courses |-> courses, Children |-> children]

\* the answer of the requisites query for one plan item: the rows delivered,
\* and how the query ended
Outcome(kind, rows) == [kind |-> kind, rows |-> rows]
ReqRow(rs, rn) == [rs |-> rs, rn |-> rn]

SeqsUpTo(S, n) == UNION {[1..m -> S] : m \in 0..n}

\* the subsequence of seq at the positions in I
Pick(seq, I) ==
  LET idx == SelectSeq([j \in 1..Len(seq) |-> j], LAMBDA j : j \in I)
  IN  [p \in 1..Len(idx) |-> seq[idx[p]]]

NoLookup(plan) == [j \in 1..Len(plan) |-> Outcome("ok", <<>>)]

(* ---- slot-walk inputs: one leaf group, every slot list ---------------- *)
WalkCodes ==
  {<<>>, Code(sCS, n1A03), Code(sCS, n1B03), Code(sCS, n1P13), Code(sCS, n2D_5)}

WalkItems ==
  << PlanItem(<<>>, <<>>, COMPLETED), PlanItem(sCS, n1A03, COMPLETED),
     PlanItem(sCS, n1B03, COMPLETED), PlanItem(sCS, n1P13, COMPLETED),
     PlanItem(sCS, n2D_5, COMPLETED), PlanItem(sCS, n1A03, PLANNED),
     PlanItem(sCS, n1B03, IN_PROGRESS), PlanItem(sCS, n1P13, DROPPED) >>

WalkPlans ==
  {Pick(WalkItems, I) : I \in {J \in SUBSET (1..Len(WalkItems)) : Cardinality(J) <= MaxPlan}}

WalkSlots == {Slot(c, o) : c \in WalkCodes, o \in BOOLEAN}

WalkProgram(unitsRequired, courses) ==
  <<Group(<<"Core", <<1>>>>, unitsRequired, <<>>, FALSE, courses, <<>>)>>

(* ---- tree inputs: every forest of at most MaxNodes groups -------------- *)
\* group templates: heading, units_required, courses_required, is_container, courses
Templates ==
  { <<"Level", <<30>>, <<>>, TRUE, <<>>>>,
    <<"Flagged", <<9>>, <<>>, TRUE, <<Slot(Code(sCS, n1A03), FALSE)>>>>,
    <<"Core", <<6>>, <<>>, FALSE,
        <<Slot(Code(sCS, n1A03), FALSE), Slot(Code(sCS, n1B03), FALSE)>>>>,
    <<"Plain", <<>>, <<>>, FALSE, <<>>>>,
    <<"Choice", <<>>, <<1>>, FALSE,
        <<Slot(Code(sCS, n1P13), TRUE), Slot(Code(sCS, n4ZZ), FALSE)>>>> }

RECURSIVE Forests(_)
\* the ordered forests of exactly n groups
Forests(n) ==
  IF n = 0 THEN {<<>>}
  ELSE UNION { { <<Group(t[1], t[2], t[3], t[4], t[5], kids)>> \o rest :
                   t \in Templates, kids \in Forests(m), rest \in Forests(n - 1 - m) } :
               m \in 0..(n - 1) }

RECURSIVE Label(_, _)
\* headings made distinct: <<template heading, path from the root>>
Label(forest, path) ==
  [j \in 1..Len(forest) |->
     [forest[j] EXCEPT !.Heading  = <<@, path \o <<j>>>>,
                       !.Children = Label(@, path \o <<j>>)]]

TreePlans ==
  { <<>>,
    <<PlanItem(sCS, n1A03, COMPLETED), PlanItem(sCS, n4ZZ, COMPLETED)>>,
    <<PlanItem(sCS, n1B03, completed), PlanItem(sCS, n1P13, COMPLETED)>> }

TreePrograms == {Label(f, <<>>) : f \in UNION {Forests(n) : n \in 0..MaxNodes}}

(* ---- prerequisite inputs: every plan with every answer of the table ---- *)
ReqRows == {ReqRow(sCS, n1A03), ReqRow(sCS, n1B03)}

Outcomes ==
  {Outcome("ok", rs) : rs \in SeqsUpTo(ReqRows, MaxRows)}
    \cup {Outcome("query_err", <<>>), Outcome("scan_err", <<>>)}
    \cup {Outcome("iter_err", rs) : rs \in SeqsUpTo(ReqRows, MaxRows - 1)}

IsPlannedStatus(st) == ToUpper(st) \in {PLANNED, IN_PROGRESS}

\* a plan item together with the answer to its query; an item that is not
\* looked up has no answer to choose
PrereqEntries ==
  {[item |-> PlanItem(sCS, n2C03, st), outcome |-> o] :
      st \in {PLANNED, planned, IN_PROGRESS}, o \in Outcomes}
    \cup {[item |-> PlanItem(sCS, n, st), outcome |-> Outcome("ok", <<>>)] :
            n \in {n1A03, n2C03}, st \in {COMPLETED, DROPPED}}

PrereqProgram ==
  <<Group(<<"Core", <<1>>>>, <<6>>, <<>>, FALSE,
          <<Slot(Code(sCS, n1A03), FALSE), Slot(Code(sCS, n1B03), FALSE)>>, <<>>)>>

\* the programs the prerequisite inputs are validated against: one group, a
\* program without groups, and one group whose units_required is 0 beside a
\* courses_required count
PrereqPrograms ==
  { PrereqProgram, <<>>,
    <<Group(<<"Zero", <<1>>>>, <<0>>, <<2>>, FALSE,
            <<Slot(Code(sCS, n1A03), FALSE)>>, <<>>)>> }

(***************************************************************************)
(* State of one invocation of ValidatePlan.                                *)
(***************************************************************************)
VARIABLES
  planItems,       \* argument planItems
  program,         \* argument program.Groups
  lookup,          \* lookup[j]: what the requisites query for planItems[j] answers
  pc,              \* "index", "prereq", "walk", "slots", "done"
  k,               \* position of the running range loop over planItems
  completedSet,    \* keys of the map completedSet
  prereqWarnings,
  queried,         \* positions of the plan items looked up so far
  totalRequired, totalCompleted, groupResults,
  todo,            \* groups walkGroup still has to visit, next one first
  g,               \* group whose slots are being walked
  unitsReq, unitsCompleted, missing,
  i,               \* slot index of the loop over g.Courses (1-based)
  ret,             \* what the invocation returned
  courseNumber,    \* argument of a direct call of unitsFromCourseNumber
  units,           \* <<n>> once that call has returned n
  saved,           \* frames of the other invocations of ValidatePlan in progress
  \* ---- one call of Repository.GetProgramWithGroups
  groupRows,       \* the rows the requirement_groups query delivers, in its order
  courseRows,      \* the rows the requirement_courses query delivers, in its order
  groupMap,        \* map groupMap (the *RequirementGroup values)
  childrenOf,      \* map childrenOf
  rootIDs,
  unwired,         \* keys of childrenOf the range loop has not visited yet
  loadPc,          \* "groups", "courses", "wire", "done"
  loaded,          \* p.Groups
  \* ---- the degree planner tables and the requests that change them
  plan_terms,      \* rows of table plan_terms
  plan_items,      \* rows of table plan_items
  termSeq,         \* AUTOINCREMENT sequence of plan_terms
  itemSeq,         \* AUTOINCREMENT sequence of plan_items
  request,         \* the request served last
  response,        \* its status code
  served,          \* number of requests served
  posting,         \* the calls of PostUserPlanHandler in progress, statement by statement
  \* ---- JSON web tokens
  now,             \* time.Now(), in quarters of an hour
  minted,          \* the signed tokens in existence, in the order they were made
  authReq,         \* the request RequireAuth or RefreshHandler served last
  authResp,        \* what it answered
  accepted,        \* history: <<token string, endpoint>> of every token accepted
  \* ---- the course catalog and one call of Repository.SearchCourses
  coursesTable,    \* rows of table courses
  searchArgs,      \* q, limit, offset of the call made last
  searchOut        \* what it returned

vars == <<planItems, program, lookup, pc, k, completedSet, prereqWarnings, queried,
          totalRequired, totalCompleted, groupResults, todo, g, unitsReq,
          unitsCompleted, missing, i, ret, courseNumber, units, saved,
          groupRows, courseRows, groupMap, childrenOf, rootIDs, unwired, loadPc, loaded,
          plan_terms, plan_items, termSeq, itemSeq, request, response, served, posting,
          now, minted, authReq, authResp, accepted, coursesTable, searchArgs, searchOut>>

planVars == <<plan_terms, plan_items, termSeq, itemSeq, request, response, served, posting>>

loadVars == <<groupRows, courseRows, groupMap, childrenOf, rootIDs, unwired, loadPc, loaded>>

\* the variables of the other operations of the program
authVars == <<now, minted, authReq, authResp, accepted>>

searchVars == <<coursesTable, searchArgs, searchOut>>

outsideVars == <<loadVars, planVars, authVars, searchVars>>

\* what the steps of one invocation of ValidatePlan leave alone
otherVars == <<saved, outsideVars>>

validateVars == <<planItems, program, lookup, pc, k, completedSet, prereqWarnings, queried,
                  totalRequired, totalCompleted, groupResults, todo, g, unitsReq,
                  unitsCompleted, missing, i, ret, courseNumber, units, saved>>

inputVars == <<planItems, program, lookup, courseNumber, units>>
walkVars  == <<totalRequired, totalCompleted, groupResults, todo, g, unitsReq,
               unitsCompleted, missing, i>>

\* type PrereqWarning
PrereqWarning(course, missingPrereq) == [Course |-> course, MissingPrereq |-> missingPrereq]

\* type GroupResult
GroupResult(heading, satisfied, unitsC, unitsR, missingCourses) ==
  [Heading |-> heading, Satisfied |-> satisfied, UnitsCompleted |-> unitsC,
   UnitsRequired |-> unitsR, MissingCourses |-> missingCourses]

\* type ValidationResult
ValidationResult(required, completedUnits, remaining, groups, warnings) ==
  [TotalUnitsRequired |-> required, TotalUnitsCompleted |-> completedUnits,
   UnitsRemaining |-> remaining, Groups |-> groups, PrereqWarnings |-> warnings]

\* ValidationResult{}
ZeroResult == ValidationResult(0, 0, 0, <<>>, <<>>)

NoGroup == Group(<<"", <<>>>>, <<>>, <<>>, FALSE, <<>>, <<>>)

Running == [status |-> "running", err |-> "", value |-> ZeroResult]

Idle ==
  /\ k = 1
  /\ completedSet = {}
  /\ prereqWarnings = <<>>
  /\ queried = <<>>
  /\ totalRequired = 0
  /\ totalCompleted = 0
  /\ groupResults = <<>>
  /\ todo = <<>>
  /\ g = NoGroup
  /\ unitsReq = 0
  /\ unitsCompleted = 0
  /\ missing = <<>>
  /\ i = 1
  /\ ret = Running

InitWalk ==
  \E pl \in WalkPlans, ur \in {<<>>, <<6>>}, n \in 0..MaxSlots :
    \E cs \in [1..n -> WalkSlots] :
      /\ planItems = pl
      /\ lookup = NoLookup(pl)
      /\ program = WalkProgram(ur, cs)

InitTree ==
  \E pl \in TreePlans, f \in TreePrograms :
    /\ planItems = pl
    /\ lookup = NoLookup(pl)
    /\ program = f

InitPrereq ==
  \E n \in 0..MaxPlan :
    \E es \in [1..n -> PrereqEntries] :
      /\ planItems = [j \in 1..n |-> es[j].item]
      /\ lookup = [j \in 1..n |-> es[j].outcome]
      /\ program \in PrereqPrograms

\* no other invocation is in progress
Alone == saved = <<>>

\* no call of GetProgramWithGroups
NoLoad ==
  /\ groupRows = <<>>
  /\ courseRows = <<>>
  /\ groupMap = <<>>
  /\ childrenOf = <<>>
  /\ rootIDs = <<>>
  /\ unwired = {}
  /\ loadPc = "none"
  /\ loaded = <<>>

\* empty planner tables, no request
NoPlanner ==
  /\ plan_terms = {}
  /\ plan_items = {}
  /\ termSeq = 0
  /\ itemSeq = 0
  /\ request = [method |-> "none"]
  /\ response = 0
  /\ served = 0
  /\ posting = <<>>

\* no token, no authenticated request
NoAuth ==
  /\ now = 0
  /\ minted = <<>>
  /\ authReq = [endpoint |-> "none"]
  /\ authResp = [status |-> 0]
  /\ accepted = {}

\* an empty catalog, no search
NoSearch ==
  /\ coursesTable = {}
  /\ searchArgs = [q |-> <<>>, limit |-> 0, offset |-> 0]
  /\ searchOut = [called |-> FALSE]

Init ==
  /\ InitWalk \/ InitTree \/ InitPrereq
  /\ pc = "index"
  /\ courseNumber = <<>>
  /\ units = <<>>
  /\ Idle
  /\ Alone
  /\ NoLoad
  /\ NoPlanner
  /\ NoAuth
  /\ NoSearch

(***************************************************************************)
(* Step 1: the completion index (first loop over planItems).               *)
(***************************************************************************)
\* variant: every plan item enters the index, whatever its status
IndexItem_AnyStatus ==
  /\ pc = "index"
  /\ k <= Len(planItems)
  /\ completedSet' = completedSet
                       \cup {TrimSpace(planItems[k].Subject \o <<" ">> \o planItems[k].CourseNumber)}
  /\ k' = k + 1
  /\ UNCHANGED <<otherVars, inputVars, pc, prereqWarnings, queried, walkVars, ret>>

IndexItem ==
  /\ pc = "index"
  /\ k <= Len(planItems)
  /\ LET pi  == planItems[k]
         key == TrimSpace(pi.Subject \o <<" ">> \o pi.CourseNumber)
     IN  completedSet' = IF EqualFold(pi.Status, COMPLETED)
                           THEN completedSet \cup {key}
                           ELSE completedSet
  /\ k' = k + 1
  /\ UNCHANGED <<otherVars, inputVars, pc, prereqWarnings, queried, walkVars, ret>>

IndexDone ==
  /\ pc = "index"
  /\ k > Len(planItems)
  /\ pc' = "prereq"
  /\ k' = 1
  /\ UNCHANGED <<otherVars, inputVars, completedSet, prereqWarnings, queried, walkVars, ret>>

(***************************************************************************)
(* Step 2: prerequisite warnings (second loop over planItems).             *)
(***************************************************************************)
PrereqSkip ==
  /\ pc = "prereq"
  /\ k <= Len(planItems)
  /\ LET statusUpper == ToUpper(planItems[k].Status)
     IN  statusUpper # PLANNED /\ statusUpper # IN_PROGRESS
  /\ k' = k + 1
  /\ UNCHANGED <<otherVars, inputVars, pc, completedSet, prereqWarnings, queried, walkVars, ret>>

\* s.Repo.DB.Query returns an error
PrereqQueryError ==
  /\ pc = "prereq"
  /\ k <= Len(planItems)
  /\ IsPlannedStatus(planItems[k].Status)
  /\ lookup[k].kind = "query_err"
  /\ queried' = Append(queried, k)
  /\ ret' = [status |-> "error", err |-> "prereq query", value |-> ZeroResult]
  /\ pc' = "done"
  /\ UNCHANGED <<otherVars, inputVars, k, completedSet, prereqWarnings, walkVars>>

\* rows.Scan returns an error
PrereqScanError ==
  /\ pc = "prereq"
  /\ k <= Len(planItems)
  /\ IsPlannedStatus(planItems[k].Status)
  /\ lookup[k].kind = "scan_err"
  /\ queried' = Append(queried, k)
  /\ ret' = [status |-> "error", err |-> "scan", value |-> ZeroResult]
  /\ pc' = "done"
  /\ UNCHANGED <<otherVars, inputVars, k, completedSet, prereqWarnings, walkVars>>

\* variant: every prerequisite row has to be completed
WarningsAfter_AllRequired(warnings, pi, rows, index) ==
  LET prereqs == [r \in 1..Len(rows) |-> TrimSpace(rows[r].rs \o <<" ">> \o rows[r].rn)]
  IN  IF \E r \in 1..Len(prereqs) : prereqs[r] \notin index
        THEN Append(warnings,
                    PrereqWarning(TrimSpace(pi.Subject \o <<" ">> \o pi.CourseNumber),
                                  Join(prereqs, <<" ", "o", "r", " ">>)))
        ELSE warnings

\* variant: one warning for every prerequisite row that is not completed
WarningsAfter_PerRow(warnings, pi, rows, index) ==
  LET prereqs == [r \in 1..Len(rows) |-> TrimSpace(rows[r].rs \o <<" ">> \o rows[r].rn)]
      lacking == SelectSeq(prereqs, LAMBDA c : c \notin index)
  IN  warnings \o [r \in 1..Len(lacking) |->
                     PrereqWarning(TrimSpace(pi.Subject \o <<" ">> \o pi.CourseNumber),
                                   lacking[r])]

\* lines 251-279: the warnings after the rows of item pi have been read
WarningsAfter(warnings, pi, rows, index) ==
  LET prereqs == [r \in 1..Len(rows) |-> TrimSpace(rows[r].rs \o <<" ">> \o rows[r].rn)]
      anyCompleted == \E r \in 1..Len(prereqs) : prereqs[r] \in index
  IN  IF Len(prereqs) > 0 /\ ~anyCompleted
        THEN Append(warnings,
                    PrereqWarning(TrimSpace(pi.Subject \o <<" ">> \o pi.CourseNumber),
                                  Join(prereqs, <<" ", "o", "r", " ">>)))
        ELSE warnings

\* The rows loop ends when rows.Next() returns false: at the end of the rows,
\* or when the iteration failed (rows.Err() is not consulted).
PrereqCheck ==
  /\ pc = "prereq"
  /\ k <= Len(planItems)
  /\ IsPlannedStatus(planItems[k].Status)
  /\ lookup[k].kind \in {"ok", "iter_err"}
  /\ queried' = Append(queried, k)
  /\ prereqWarnings' = WarningsAfter(prereqWarnings, planItems[k], lookup[k].rows,
                                      completedSet)
  /\ k' = k + 1
  /\ UNCHANGED <<otherVars, inputVars, pc, completedSet, walkVars, ret>>

PrereqDone ==
  /\ pc = "prereq"
  /\ k > Len(planItems)
  /\ pc' = "walk"
  /\ todo' = program
  /\ totalRequired' = 0
  /\ totalCompleted' = 0
  /\ groupResults' = <<>>
  /\ UNCHANGED <<otherVars, inputVars, k, completedSet, prereqWarnings, queried, g, unitsReq,
                 unitsCompleted, missing, i, ret>>

(***************************************************************************)
(* Step 3: walkGroup.  The recursion is run with the list todo of the      *)
(* groups still to visit: a call walkGroup(child) for every child, in      *)
(* order, is the children put in front of todo.                            *)
(***************************************************************************)
\* variant: only the explicit flag makes a container
IsContainerGroup_FlagOnly(gr) == gr.IsContainer

IsContainerGroup(gr) ==
  gr.IsContainer \/ (Len(gr.Courses) = 0 /\ Len(gr.Children) > 0)

\* variant: the children are visited after the groups still to visit
PushChildren_Last(children, rest) == rest \o children

\* for _, child := range g.Children { walkGroup(child) }: the children are
\* visited, in order, before whatever was still to visit
PushChildren(children, rest) == children \o rest

\* a container: only its children are walked
WalkContainer ==
  /\ pc = "walk"
  /\ todo # <<>>
  /\ IsContainerGroup(Head(todo))
  /\ todo' = PushChildren(Head(todo).Children, Tail(todo))
  /\ UNCHANGED <<otherVars, inputVars, pc, k, completedSet, prereqWarnings, queried, totalRequired,
                 totalCompleted, groupResults, g, unitsReq, unitsCompleted, missing, i, ret>>

\* variant: a units_required of 0 counts as absent
UnitsRequiredOf_ZeroIsAbsent(gr) ==
  IF gr.UnitsRequired # <<>> /\ gr.UnitsRequired # <<0>> THEN gr.UnitsRequired[1]
  ELSE IF gr.CoursesRequired # <<>> THEN gr.CoursesRequired[1] * defaultUnitsPerCourse
  ELSE 0

\* lines 298-305
UnitsRequiredOf(gr) ==
  IF gr.UnitsRequired # <<>> THEN gr.UnitsRequired[1]
  ELSE IF gr.CoursesRequired # <<>> THEN gr.CoursesRequired[1] * defaultUnitsPerCourse
  ELSE 0

\* a group with a row of its own: its threshold, then its slots
EnterGroup ==
  /\ pc = "walk"
  /\ todo # <<>>
  /\ ~IsContainerGroup(Head(todo))
  /\ g' = Head(todo)
  /\ todo' = Tail(todo)
  /\ unitsReq' = UnitsRequiredOf(Head(todo))
  /\ totalRequired' = IF UnitsRequiredOf(Head(todo)) > 0
                        THEN totalRequired + UnitsRequiredOf(Head(todo))
                        ELSE totalRequired
  /\ unitsCompleted' = 0
  /\ missing' = <<>>
  /\ i' = 1
  /\ pc' = "slots"
  /\ UNCHANGED <<otherVars, inputVars, k, completedSet, prereqWarnings, queried, totalCompleted,
                 groupResults, ret>>

RECURSIVE CollectChain(_, _, _)
\* the loop  for j < len(g.Courses) { chain = append(chain, g.Courses[j]); ... }
CollectChain(courses, j, chain) ==
  IF j <= Len(courses)
    THEN IF ~courses[j].IsOrWithNext
           THEN Append(chain, courses[j])
           ELSE CollectChain(courses, j + 1, Append(chain, courses[j]))
    ELSE chain

\* variant: the chain is the flagged slot alone
ChainAt_Alone(courses, at) == <<courses[at]>>

\* chain := []RequirementCourse{rc}; j := i + 1; ...
ChainAt(courses, at) == CollectChain(courses, at + 1, <<courses[at]>>)

\* position in the chain of the first member whose key is in the map, 0 if none
FirstMatch(chain, index) ==
  IF \E c \in 1..Len(chain) : TrimSpace(chain[c].CourseCode) \in index
    THEN CHOOSE c \in 1..Len(chain) :
           /\ TrimSpace(chain[c].CourseCode) \in index
           /\ \A d \in 1..(c - 1) : TrimSpace(chain[d].CourseCode) \notin index
    ELSE 0

\* variant: members without a course code are appended too
ChainMissing_Unfiltered(chain) ==
  [c \in 1..Len(chain) |-> TrimSpace(chain[c].CourseCode)]

\* the codes appended to missing for an unmatched chain
ChainMissing(chain) ==
  LET named == SelectSeq(chain, LAMBDA c : c.CourseCode # <<>>)
  IN  [c \in 1..Len(named) |-> TrimSpace(named[c].CourseCode)]

\* strings.SplitN(code, " ", 2)[1] is an index out of range
SplitPanics(code) == Len(SplitN2(code)) < 2

\* slot i starts an OR chain
ChainStep ==
  /\ pc = "slots"
  /\ i <= Len(g.Courses)
  /\ g.Courses[i].IsOrWithNext
  /\ LET chain == ChainAt(g.Courses, i)
         m     == FirstMatch(chain, completedSet)
         matchedCode == TrimSpace(chain[m].CourseCode)
     IN  /\ m # 0 => ~SplitPanics(matchedCode)
         /\ unitsCompleted' =
              IF m # 0
                THEN unitsCompleted
                       + unitsFromCourseNumber(TrimSpace(SplitN2(matchedCode)[2]),
                                               defaultUnitsPerCourse)
                ELSE unitsCompleted
         /\ missing' = IF m # 0 THEN missing ELSE missing \o ChainMissing(chain)
         /\ i' = (i + Len(chain) - 1) + 1
  /\ UNCHANGED <<otherVars, inputVars, pc, k, completedSet, prereqWarnings, queried, totalRequired,
                 totalCompleted, groupResults, todo, g, unitsReq, ret>>

\* slot i is a single required course
SingleStep ==
  /\ pc = "slots"
  /\ i <= Len(g.Courses)
  /\ ~g.Courses[i].IsOrWithNext
  /\ LET rc   == g.Courses[i]
         code == TrimSpace(rc.CourseCode)
     IN  /\ code \in completedSet => ~SplitPanics(rc.CourseCode)
         /\ unitsCompleted' =
              IF code \in completedSet
                THEN unitsCompleted
                       + unitsFromCourseNumber(SplitN2(rc.CourseCode)[2], defaultUnitsPerCourse)
                ELSE unitsCompleted
         /\ missing' = IF code \notin completedSet /\ code # <<>>
                         THEN Append(missing, code)
                         ELSE missing
         /\ i' = i + 1
  /\ UNCHANGED <<otherVars, inputVars, pc, k, completedSet, prereqWarnings, queried, totalRequired,
                 totalCompleted, groupResults, todo, g, unitsReq, ret>>

\* the matched code holds no blank: SplitN(...)[1] panics and ValidatePlan
\* returns nothing
SlotPanic ==
  /\ pc = "slots"
  /\ i <= Len(g.Courses)
  /\ IF g.Courses[i].IsOrWithNext
       THEN LET chain == ChainAt(g.Courses, i)
                m     == FirstMatch(chain, completedSet)
            IN  m # 0 /\ SplitPanics(TrimSpace(chain[m].CourseCode))
       ELSE /\ TrimSpace(g.Courses[i].CourseCode) \in completedSet
            /\ SplitPanics(g.Courses[i].CourseCode)
  /\ ret' = [status |-> "panic", err |-> "index out of range", value |-> ZeroResult]
  /\ pc' = "done"
  /\ UNCHANGED <<otherVars, inputVars, k, completedSet, prereqWarnings, queried, walkVars>>

\* variant: a group is satisfied only when nothing is missing
Satisfied_NothingMissing(required, completedUnits, missingCourses) ==
  Len(missingCourses) = 0

\* lines 377-384: satisfied := len(missing) == 0 without a threshold, and
\* unitsCompleted >= unitsReq with one
Satisfied(required, completedUnits, missingCourses) ==
  IF required = 0 THEN Len(missingCourses) = 0
                  ELSE completedUnits >= required

\* after the slot loop: satisfied, the running total, the row, the children
FinishGroup ==
  /\ pc = "slots"
  /\ i > Len(g.Courses)
  /\ groupResults' = Append(groupResults,
                            GroupResult(g.Heading,
                                        Satisfied(unitsReq, unitsCompleted, missing),
                                        unitsCompleted, unitsReq, missing))
  /\ totalCompleted' = IF unitsCompleted > 0 THEN totalCompleted + unitsCompleted
                                             ELSE totalCompleted
  /\ todo' = PushChildren(g.Children, todo)
  /\ pc' = "walk"
  /\ UNCHANGED <<otherVars, inputVars, k, completedSet, prereqWarnings, queried, totalRequired,
                 g, unitsReq, unitsCompleted, missing, i, ret>>

(***************************************************************************)
(* Step 4: the result.                                                     *)
(***************************************************************************)
\* variant: no clamp
UnitsRemaining_Unclamped(required, completedUnits) == required - completedUnits

\* unitsRemaining := totalRequired - totalCompleted, clamped at 0
UnitsRemaining(required, completedUnits) ==
  IF required - completedUnits < 0 THEN 0 ELSE required - completedUnits

\* variant: a walk that produced no row is answered with an error
Finalize_RejectsNoRows ==
  /\ pc = "walk"
  /\ todo = <<>>
  /\ ret' = IF groupResults = <<>>
              THEN [status |-> "error", err |-> "no groups", value |-> ZeroResult]
              ELSE [status |-> "ok", err |-> "",
                    value  |-> ValidationResult(totalRequired, totalCompleted,
                                                UnitsRemaining(totalRequired, totalCompleted),
                                                groupResults, prereqWarnings)]
  /\ pc' = "done"
  /\ UNCHANGED <<otherVars, inputVars, k, completedSet, prereqWarnings, queried, walkVars>>

Finalize ==
  /\ pc = "walk"
  /\ todo = <<>>
  /\ ret' = [status |-> "ok", err |-> "",
             value  |-> ValidationResult(totalRequired, totalCompleted,
                                         UnitsRemaining(totalRequired, totalCompleted),
                                         groupResults, prereqWarnings)]
  /\ pc' = "done"
  /\ UNCHANGED <<otherVars, inputVars, k, completedSet, prereqWarnings, queried, walkVars>>

Next ==
  \/ IndexItem
  \/ IndexDone
  \/ PrereqSkip
  \/ PrereqQueryError
  \/ PrereqScanError
  \/ PrereqCheck
  \/ PrereqDone
  \/ WalkContainer
  \/ EnterGroup
  \/ ChainStep
  \/ SingleStep
  \/ SlotPanic
  \/ FinishGroup
  \/ Finalize

Spec == Init /\ [][Next]_vars

\* ValidatePlan is straight-line code of one goroutine: a step that can be taken
\* is taken, the function is never suspended forever
\* the starting states of the progress specification: every flag pattern on
\* every slot list of a coded and a code-less slot, with three plans; the
\* forests of two groups; the plans of at most one looked-up item
InitProgress ==
  /\ \/ \E pl \in { <<>>,
                    <<PlanItem(sCS, n1A03, COMPLETED)>>,
                    <<PlanItem(<<>>, <<>>, COMPLETED), PlanItem(sCS, n1P13, COMPLETED)>> },
           n \in 0..MaxSlots :
          \E cs \in [1..n -> {Slot(c, o) : c \in {<<>>, Code(sCS, n1A03)}, o \in BOOLEAN}] :
            /\ planItems = pl
            /\ lookup = NoLookup(pl)
            /\ program = WalkProgram(<<6>>, cs)
     \/ \E pl \in TreePlans, f \in Forests(2) :
          /\ planItems = pl
          /\ lookup = NoLookup(pl)
          /\ program = Label(f, <<>>)
     \/ \E n \in 0..1 :
          \E es \in [1..n -> PrereqEntries] :
            /\ planItems = [j \in 1..n |-> es[j].item]
            /\ lookup = [j \in 1..n |-> es[j].outcome]
            /\ program \in PrereqPrograms
  /\ pc = "index"
  /\ courseNumber = <<>>
  /\ units = <<>>
  /\ Idle
  /\ Alone
  /\ NoLoad
  /\ NoPlanner
  /\ NoAuth
  /\ NoSearch

SpecProgress == InitProgress /\ [][Next]_vars /\ WF_vars(Next)

(***************************************************************************)
(* unitsFromCourseNumber called on its own (as GetUserGPA and the plan     *)
(* summaries call it), for every course number over UnitChars.             *)
(***************************************************************************)
UnitChars == {"0", "1", "3", "Z", "-", "+"}

InitUnits ==
  /\ planItems = <<>>
  /\ program = <<>>
  /\ lookup = <<>>
  /\ pc = "call"
  /\ \E n \in 0..MaxLen : courseNumber \in [1..n -> UnitChars]
  /\ units = <<>>
  /\ Idle
  /\ Alone
  /\ NoLoad
  /\ NoPlanner
  /\ NoAuth
  /\ NoSearch

UnitsCall ==
  /\ pc = "call"
  /\ units' = <<unitsFromCourseNumber(courseNumber, defaultUnitsPerCourse)>>
  /\ pc' = "returned"
  /\ UNCHANGED <<otherVars, planItems, program, lookup, courseNumber, k, completedSet, prereqWarnings,
                 queried, walkVars, ret>>

NextUnits == UnitsCall

SpecUnits == InitUnits /\ [][NextUnits]_vars

(***************************************************************************)
(* Several invocations of ValidatePlan in one process: every request for   *)
(* /api/users/{id}/validation runs in a goroutine of its own and calls     *)
(* svc.ValidatePlan.  The arguments and locals of an invocation are its    *)
(* frame; the frames of the invocations that are not running are in saved. *)
(***************************************************************************)
MaxCalls == 2   \* invocations in one behaviour

\* a plan, the answers of its lookups and a program
CallInput(plan, answers, groups) ==
  [planItems |-> plan, lookup |-> answers, program |-> groups]

CallInputs ==
  { CallInput(<<PlanItem(sCS, n2C03, PLANNED)>>,
              <<Outcome("ok", <<ReqRow(sCS, n1A03)>>)>>, PrereqProgram),
    CallInput(<<PlanItem(sCS, n1P13, COMPLETED), PlanItem(sCS, n2C03, DROPPED)>>,
              <<Outcome("ok", <<>>), Outcome("ok", <<>>)>>,
              Label(<<Group("Level", <<30>>, <<>>, TRUE, <<>>,
                            <<Group("Choice", <<>>, <<1>>, FALSE,
                                    <<Slot(Code(sCS, n1P13), TRUE),
                                      Slot(Code(sCS, n4ZZ), FALSE)>>, <<>>)>>)>>, <<>>)),
    CallInput(<<PlanItem(sCS, n2C03, PLANNED)>>, <<Outcome("query_err", <<>>)>>,
              PrereqProgram),
    CallInput(<<PlanItem(sCS, n2C03, IN_PROGRESS)>>, <<Outcome("scan_err", <<>>)>>, <<>>),
    CallInput(<<PlanItem(<<>>, <<>>, COMPLETED)>>, <<Outcome("ok", <<>>)>>,
              WalkProgram(<<6>>, <<Slot(<<>>, FALSE)>>)) }
    \cup
    \* one student at three moments: the plans differ in one item
    { CallInput(pl, NoLookup(pl),
                WalkProgram(<<6>>, <<Slot(Code(sCS, n1A03), TRUE),
                                     Slot(Code(sCS, n1P13), FALSE),
                                     Slot(Code(sCS, n1B03), FALSE)>>)) :
        pl \in { <<PlanItem(sCS, n1P13, COMPLETED)>>,
                 <<PlanItem(sCS, n1A03, PLANNED), PlanItem(sCS, n1P13, COMPLETED)>>,
                 <<PlanItem(sCS, n1A03, COMPLETED), PlanItem(sCS, n1P13, COMPLETED)>>,
                 <<PlanItem(sCS, n1P13, COMPLETED), PlanItem(sCS, n1B03, COMPLETED)>> } }

\* the frame of the running invocation
Frame ==
  [planItems |-> planItems, program |-> program, lookup |-> lookup, pc |-> pc, k |-> k,
   completedSet |-> completedSet, prereqWarnings |-> prereqWarnings, queried |-> queried,
   totalRequired |-> totalRequired, totalCompleted |-> totalCompleted,
   groupResults |-> groupResults, todo |-> todo, g |-> g, unitsReq |-> unitsReq,
   unitsCompleted |-> unitsCompleted, missing |-> missing, i |-> i, ret |-> ret]

\* variant: the warning list is a variable of the package, not of the call
Enter_SharedWarnings(in, current) ==
  [planItems |-> in.planItems, program |-> in.program, lookup |-> in.lookup,
   pc |-> "index", k |-> 1, completedSet |-> {},
   prereqWarnings |-> current.prereqWarnings,
   queried |-> <<>>, totalRequired |-> 0, totalCompleted |-> 0, groupResults |-> <<>>,
   todo |-> <<>>, g |-> NoGroup, unitsReq |-> 0, unitsCompleted |-> 0,
   missing |-> <<>>, i |-> 1, ret |-> Running]

\* the frame of a call ValidatePlan(in.planItems, in.program): every local is
\* declared in the function body and starts at its zero value, whatever the
\* frame `current` of the invocation running at that moment holds
Enter(in, current) ==
  [planItems |-> in.planItems, program |-> in.program, lookup |-> in.lookup,
   pc |-> "index", k |-> 1, completedSet |-> {}, prereqWarnings |-> <<>>,
   queried |-> <<>>, totalRequired |-> 0, totalCompleted |-> 0, groupResults |-> <<>>,
   todo |-> <<>>, g |-> NoGroup, unitsReq |-> 0, unitsCompleted |-> 0,
   missing |-> <<>>, i |-> 1, ret |-> Running]

\* the processor runs the invocation with frame f
Run(f) ==
  /\ planItems' = f.planItems
  /\ program' = f.program
  /\ lookup' = f.lookup
  /\ pc' = f.pc
  /\ k' = f.k
  /\ completedSet' = f.completedSet
  /\ prereqWarnings' = f.prereqWarnings
  /\ queried' = f.queried
  /\ totalRequired' = f.totalRequired
  /\ totalCompleted' = f.totalCompleted
  /\ groupResults' = f.groupResults
  /\ todo' = f.todo
  /\ g' = f.g
  /\ unitsReq' = f.unitsReq
  /\ unitsCompleted' = f.unitsCompleted
  /\ missing' = f.missing
  /\ i' = f.i
  /\ ret' = f.ret

InitCalls ==
  /\ \E in \in CallInputs :
       /\ planItems = in.planItems
       /\ lookup = in.lookup
       /\ program = in.program
  /\ pc = "index"
  /\ courseNumber = <<>>
  /\ units = <<>>
  /\ Idle
  /\ Alone
  /\ NoLoad
  /\ NoPlanner
  /\ NoAuth
  /\ NoSearch

\* another request arrives: its invocation starts, the running one waits
Spawn ==
  /\ Len(saved) + 1 < MaxCalls
  /\ \E in \in CallInputs : Run(Enter(in, Frame))
  /\ saved' = Append(saved, Frame)
  /\ UNCHANGED <<courseNumber, units, outsideVars>>

\* the scheduler lets a waiting invocation continue
Switch ==
  \E j \in 1..Len(saved) :
    /\ Run(saved[j])
    /\ saved' = [saved EXCEPT ![j] = Frame]
    /\ UNCHANGED <<courseNumber, units, outsideVars>>

NextCalls ==
  \/ Next
  \/ Spawn
  \/ Switch

SpecCalls == InitCalls /\ [][NextCalls]_vars

(***************************************************************************)
(* Repository.GetProgramWithGroups (src/unnamed/part_011:67-190): the      *)
(* requirement tree of one program is read from requirement_groups and     *)
(* requirement_courses and put together in memory.                         *)
(***************************************************************************)
MaxGroups == 3   \* rows of requirement_groups of the program

\* a row of requirement_groups; parent_group_id NULL is <<>>
GroupRow(id, parent, order) ==
  [group_id |-> id, parent_group_id |-> parent, display_order |-> order]

\* a row of requirement_courses
CourseRow(id, group, order, code) ==
  [req_course_id |-> id, group_id |-> group, display_order |-> order, course_code |-> code]

\* type RequirementGroup as the groups loop fills it: no courses, no children
LoadedGroup(row) ==
  [GroupID |-> row.group_id, ParentGroupID |-> row.parent_group_id,
   DisplayOrder |-> row.display_order, Courses |-> <<>>, Children |-> <<>>]

\* type RequirementCourse as the courses loop fills it
LoadedCourse(row) ==
  [ReqCourseID |-> row.req_course_id, GroupID |-> row.group_id,
   DisplayOrder |-> row.display_order, CourseCode |-> row.course_code]

\* parent_group_id of every group: 0 for a root, else a group inserted before
ParentChoices(n) == {f \in [1..n -> 0..n] : \A j \in 1..n : f[j] < j}

\* display_order: the position among the siblings
OrderChoices(n, parent) ==
  {o \in [1..n -> 1..n] :
     \A j \in 1..n :
       LET siblings == {x \in 1..n : parent[x] = parent[j]}
       IN  /\ o[j] <= Cardinality(siblings)
           /\ \A x \in siblings \ {j} : o[x] # o[j]}

GroupTable(n, parent, order) ==
  {GroupRow(j, IF parent[j] = 0 THEN <<>> ELSE <<parent[j]>>, order[j]) : j \in 1..n}

\* ORDER BY display_order: the rows, each once, display_order never decreasing
\* (rows with equal display_order come in any order)
OrderedByDisplay(table) ==
  {rows \in [1..Cardinality(table) -> table] :
     /\ \A p, q \in DOMAIN rows : p < q => /\ rows[p] # rows[q]
                                          /\ rows[p].display_order <= rows[q].display_order}

RECURSIVE CourseRowsOf(_, _)
\* ORDER BY rc.group_id, rc.display_order: a group has no course row, or the
\* two rows of CS 1A03 and CS 1B03 (inserted in the other order)
CourseRowsOf(n, withCourses) ==
  IF n = 0 THEN <<>>
  ELSE CourseRowsOf(n - 1, withCourses)
         \o (IF n \in withCourses
               THEN <<CourseRow(2 * n, n, 1, Code(sCS, n1A03)),
                      CourseRow(2 * n - 1, n, 2, Code(sCS, n1B03))>>
               ELSE <<>>)

InitLoad ==
  /\ planItems = <<>> /\ program = <<>> /\ lookup = <<>>
  /\ pc = "none" /\ courseNumber = <<>> /\ units = <<>>
  /\ Idle
  /\ Alone
  /\ NoPlanner
  /\ NoAuth
  /\ NoSearch
  /\ \E n \in 0..MaxGroups :
       \E parent \in ParentChoices(n), withCourses \in SUBSET (1..n) :
         \E order \in OrderChoices(n, parent) :
           /\ groupRows \in OrderedByDisplay(GroupTable(n, parent, order))
           /\ courseRows = CourseRowsOf(n, withCourses)
  /\ groupMap = <<>>
  /\ childrenOf = <<>>
  /\ rootIDs = <<>>
  /\ unwired = {}
  /\ loadPc = "groups"
  /\ loaded = <<>>

\* the group_id values of the rows whose parent_group_id is parent, in row
\* order
IDsWhere(rows, parent) ==
  LET hits == SelectSeq(rows, LAMBDA row : row.parent_group_id = parent)
  IN  [p \in 1..Len(hits) |-> hits[p].group_id]

\* lines 92-137: the loop over the group rows
LoadGroupRows ==
  /\ loadPc = "groups"
  /\ groupMap' =
       [id \in {groupRows[p].group_id : p \in 1..Len(groupRows)} |->
          LoadedGroup(CHOOSE row \in {groupRows[p] : p \in 1..Len(groupRows)} :
                        row.group_id = id)]
  /\ childrenOf' =
       [pid \in {groupRows[p].parent_group_id[1] :
                   p \in {q \in 1..Len(groupRows) : groupRows[q].parent_group_id # <<>>}} |->
          IDsWhere(groupRows, <<pid>>)]
  /\ rootIDs' = IDsWhere(groupRows, <<>>)
  /\ loadPc' = "courses"
  /\ UNCHANGED <<groupRows, courseRows, unwired, loaded, validateVars, planVars, authVars, searchVars>>

\* lines 139-176: the loop over the course rows
LoadCourseRows ==
  /\ loadPc = "courses"
  /\ groupMap' =
       [id \in DOMAIN groupMap |->
          LET mine == SelectSeq(courseRows, LAMBDA row : row.group_id = id)
          IN  [groupMap[id] EXCEPT
                 !.Courses = @ \o [p \in 1..Len(mine) |-> LoadedCourse(mine[p])]]]
  /\ unwired' = DOMAIN childrenOf
  /\ loadPc' = "wire"
  /\ UNCHANGED <<groupRows, courseRows, childrenOf, rootIDs, loaded, validateVars, planVars, authVars, searchVars>>

\* *groupMap[cid] for every cid: the values the groups have at this moment
ChildCopies(map, childIDs) == [c \in 1..Len(childIDs) |-> map[childIDs[c]]]

\* lines 179-184: one iteration of  for parentID, childIDs := range childrenOf;
\* the order in which a map is ranged over is not specified
WireChildren ==
  /\ loadPc = "wire"
  /\ \E parentID \in unwired :
       /\ parentID \in DOMAIN groupMap
       /\ groupMap' = [groupMap EXCEPT
                         ![parentID].Children = @ \o ChildCopies(groupMap, childrenOf[parentID])]
       /\ unwired' = unwired \ {parentID}
  /\ UNCHANGED <<groupRows, courseRows, childrenOf, rootIDs, loadPc, loaded, validateVars, planVars, authVars, searchVars>>

\* lines 185-189: the roots are copied into p.Groups and the program returned
CollectRoots ==
  /\ loadPc = "wire"
  /\ unwired = {}
  /\ loaded' = ChildCopies(groupMap, rootIDs)
  /\ loadPc' = "done"
  /\ UNCHANGED <<groupRows, courseRows, groupMap, childrenOf, rootIDs, unwired, validateVars, planVars, authVars, searchVars>>

NextLoad ==
  \/ LoadGroupRows
  \/ LoadCourseRows
  \/ WireChildren
  \/ CollectRoots

SpecLoad == InitLoad /\ [][NextLoad]_vars

(***************************************************************************)
(* The degree planner: tables plan_terms and plan_items                    *)
(* (src/migrations/schema_test.sql:110-127) and the handlers that change   *)
(* them, PostUserPlanHandler, PatchUserPlanItemHandler and                 *)
(* DeleteUserPlanItemHandler (src/pkg/handlers.go:12-229).  A handler runs *)
(* its statements one after the other on the connection; one request is    *)
(* one step.                                                               *)
(***************************************************************************)
MaxRequests == 3   \* requests served in one behaviour

\* CHECK (season IN ('Fall','Winter','Spring','Summer'))
Seasons ==
  { <<"F", "a", "l", "l">>, <<"W", "i", "n", "t", "e", "r">>,
    <<"S", "p", "r", "i", "n", "g">>, <<"S", "u", "m", "m", "e", "r">> }

\* CHECK (status IN (...)), and the map `allowed` of the PATCH handler
PlanStatuses == {PLANNED, IN_PROGRESS, COMPLETED, DROPPED}

TermRow(id, user, year, season) ==
  [plan_term_id |-> id, user_id |-> user, year_index |-> year, season |-> season]

\* grade NULL is <<>>
ItemRow(id, term, subject, number, status, grade) ==
  [plan_item_id |-> id, plan_term_id |-> term, subject |-> subject,
   course_number |-> number, status |-> status, grade |-> grade]

\* the {id} and {itemId} texts of the explored paths
UserTexts == {<<"0">>, <<"1">>, <<"2">>}
ItemTexts == {<<"0">>} \cup {<<c>> : c \in {"1", "2", "3", "4"}}

PostRequests ==
  [method : {"POST"}, user : UserTexts, subject : {sCS}, course_number : {n1A03, n1B03},
   year_index : {0, 1},
   season : {<<"F", "a", "l", "l">>, <<"W", "i", "n", "t", "e", "r">>}]

\* a nil *string is <<>>, a pointer to v is <<v>>
PatchRequests ==
  [method : {"PATCH"}, user : UserTexts, item : ItemTexts,
   body : {[status |-> COMPLETED, grade |-> <<<<"A">>>>],
           [status |-> <<"d", "o", "n", "e">>, grade |-> <<>>]}]

DeleteRequests == [method : {"DELETE"}, user : UserTexts, item : ItemTexts]

InitPlan ==
  /\ planItems = <<>> /\ program = <<>> /\ lookup = <<>>
  /\ pc = "none" /\ courseNumber = <<>> /\ units = <<>>
  /\ Idle
  /\ Alone
  /\ NoLoad
  /\ NoPlanner
  /\ NoAuth
  /\ NoSearch

\* variant: the lookup of the term never finds a row
SelectTerm_NoneFound(terms, user, year, season) == {}

\* SELECT plan_term_id FROM plan_terms WHERE user_id = ? AND year_index = ?
\* AND season = ?
SelectTerm(terms, user, year, season) ==
  {t.plan_term_id :
     t \in {x \in terms : x.user_id = user /\ x.year_index = year /\ x.season = season}}

\* variant: the table has no CHECK on year_index
TermInsertable_NoYearCheck(terms, user, year, season) ==
  /\ season \in Seasons
  /\ \A t \in terms : ~(t.user_id = user /\ t.year_index = year /\ t.season = season)

\* INSERT INTO plan_terms succeeds: the two CHECKs and UNIQUE(user_id,
\* year_index, season)
TermInsertable(terms, user, year, season) ==
  /\ year >= 1 /\ year <= 8
  /\ season \in Seasons
  /\ \A t \in terms : ~(t.user_id = user /\ t.year_index = year /\ t.season = season)

\* INSERT INTO plan_items succeeds: CHECK (status ...) and UNIQUE(plan_term_id,
\* subject, course_number)
ItemInsertable(items, term, subject, number, status) ==
  /\ status \in PlanStatuses
  /\ \A it \in items :
       ~(it.plan_term_id = term /\ it.subject = subject /\ it.course_number = number)

\* the path number is not an integer, or is 0
BadID(text) == Atoi(text).err \/ Atoi(text).n = 0

\* the function PostUserPlanHandler returns, serving request req
PostUserPlan(req) ==
  LET userID  == Atoi(req.user).n
      found   == SelectTerm(plan_terms, userID, req.year_index, req.season)
      created == found = {}
      planTermID == IF created THEN termSeq + 1 ELSE CHOOSE id \in found : TRUE
      termsNow == IF created
                    THEN plan_terms
                           \cup {TermRow(planTermID, userID, req.year_index, req.season)}
                    ELSE plan_terms
  IN  /\ request' = req
      /\ IF BadID(req.user)
           THEN /\ response' = 400
                /\ UNCHANGED <<plan_terms, plan_items, termSeq, itemSeq>>
         ELSE IF created
                 /\ ~TermInsertable(plan_terms, userID, req.year_index, req.season)
           THEN /\ response' = 500
                /\ UNCHANGED <<plan_terms, plan_items, termSeq, itemSeq>>
         ELSE /\ plan_terms' = termsNow
              /\ termSeq' = IF created THEN planTermID ELSE termSeq
              /\ IF ItemInsertable(plan_items, planTermID, req.subject,
                                   req.course_number, PLANNED)
                   THEN /\ plan_items' =
                             plan_items
                               \cup {ItemRow(itemSeq + 1, planTermID, req.subject,
                                             req.course_number, PLANNED, <<>>)}
                        /\ itemSeq' = itemSeq + 1
                        /\ response' = 201
                   ELSE /\ response' = 500
                        /\ UNCHANGED <<plan_items, itemSeq>>

PostUserPlanHandler ==
  /\ served < MaxRequests
  /\ \E req \in PostRequests : PostUserPlan(req)
  /\ served' = served + 1
  /\ UNCHANGED <<posting, validateVars, loadVars, authVars, searchVars>>

\* SELECT pt.user_id FROM plan_items pi JOIN plan_terms pt ON pi.plan_term_id
\* = pt.plan_term_id WHERE pi.plan_item_id = ?
OwnerOf(items, terms, itemID) ==
  {t.user_id :
     t \in {x \in terms : \E it \in items : /\ it.plan_item_id = itemID
                                             /\ it.plan_term_id = x.plan_term_id}}

\* variant: the owner is not compared with the user of the path
OwnershipStatus_AnyOwner(items, terms, userID, itemID) ==
  IF OwnerOf(items, terms, itemID) = {} THEN 404 ELSE 0

\* the ownership test of PATCH and DELETE: 404 without a row, 403 when the
\* owner is another user, 0 when the handler goes on
OwnershipStatus(items, terms, userID, itemID) ==
  IF OwnerOf(items, terms, itemID) = {} THEN 404
  ELSE IF userID \notin OwnerOf(items, terms, itemID) THEN 403
  ELSE 0

PatchUserPlanItemHandler ==
  /\ served < MaxRequests
  /\ \E req \in PatchRequests :
       LET userID == Atoi(req.user).n
           itemID == Atoi(req.item).n
           owner  == OwnershipStatus(plan_items, plan_terms, userID, itemID)
       IN  /\ request' = req
           /\ IF BadID(req.user) \/ BadID(req.item) \/ req.body.status \notin PlanStatuses
                THEN response' = 400 /\ plan_items' = plan_items
              ELSE IF owner # 0
                THEN response' = owner /\ plan_items' = plan_items
              ELSE /\ plan_items' =
                        {IF it.plan_item_id = itemID
                           THEN [it EXCEPT !.status = req.body.status,
                                           !.grade = req.body.grade]
                           ELSE it : it \in plan_items}
                   /\ response' = 204
  /\ served' = served + 1
  /\ UNCHANGED <<plan_terms, termSeq, itemSeq, posting, validateVars, loadVars, authVars,
                 searchVars>>

\* the function DeleteUserPlanItemHandler returns, serving request req
DeleteUserPlanItem(req) ==
  LET userID == Atoi(req.user).n
      itemID == Atoi(req.item).n
      owner  == OwnershipStatus(plan_items, plan_terms, userID, itemID)
  IN  /\ request' = req
      /\ IF BadID(req.user) \/ BadID(req.item)
           THEN response' = 400 /\ plan_items' = plan_items
         ELSE IF owner # 0
           THEN response' = owner /\ plan_items' = plan_items
         ELSE /\ plan_items' = {it \in plan_items : it.plan_item_id # itemID}
              /\ response' = 204
      /\ UNCHANGED <<plan_terms, termSeq, itemSeq>>

DeleteUserPlanItemHandler ==
  /\ served < MaxRequests
  /\ \E req \in DeleteRequests : DeleteUserPlanItem(req)
  /\ served' = served + 1
  /\ UNCHANGED <<posting, validateVars, loadVars, authVars, searchVars>>

NextPlan ==
  \/ PostUserPlanHandler
  \/ PatchUserPlanItemHandler
  \/ DeleteUserPlanItemHandler

SpecPlan == InitPlan /\ [][NextPlan]_vars

(***************************************************************************)
(* PostUserPlanHandler statement by statement: every request runs in a     *)
(* goroutine of its own, the handler opens no transaction, and between two *)
(* of its three statements (SELECT the term, INSERT the term, INSERT the   *)
(* item) the statements of other requests may run.                         *)
(***************************************************************************)
MaxPosts == 2   \* calls of PostUserPlanHandler in progress in one behaviour

\* the frame of a call: the request, the statement it runs next, its local
\* planTermID and the status it has written
PostCall(req) == [req |-> req, at |-> "select", planTermID |-> 0, status |-> 0]

\* net/http starts the handler for a request that arrived
PostArrives ==
  /\ Len(posting) < MaxPosts
  /\ \E req \in PostRequests : posting' = Append(posting, PostCall(req))
  /\ UNCHANGED <<plan_terms, plan_items, termSeq, itemSeq, request, response, served,
                 validateVars, loadVars, authVars, searchVars>>

\* lines 23-53: the user id of the path, then QueryRow(SELECT plan_term_id
\* ...).Scan(&planTermID)
SelectTermStep ==
  /\ \E j \in 1..Len(posting) :
       LET req    == posting[j].req
           userID == Atoi(req.user).n
           found  == SelectTerm(plan_terms, userID, req.year_index, req.season)
       IN  /\ posting[j].at = "select"
           /\ posting' =
                IF BadID(req.user)
                  THEN [posting EXCEPT ![j].at = "done", ![j].status = 400]
                ELSE IF found = {}
                  THEN [posting EXCEPT ![j].at = "insertTerm"]
                ELSE [posting EXCEPT ![j].at = "insertItem",
                                     ![j].planTermID = CHOOSE id \in found : TRUE]
  /\ UNCHANGED <<plan_terms, plan_items, termSeq, itemSeq, request, response, served,
                 validateVars, loadVars, authVars, searchVars>>

\* lines 55-69: no term was found: INSERT INTO plan_terms, 500 when the
\* statement fails
InsertTermStep ==
  /\ \E j \in 1..Len(posting) :
       LET req    == posting[j].req
           userID == Atoi(req.user).n
       IN  /\ posting[j].at = "insertTerm"
           /\ IF TermInsertable(plan_terms, userID, req.year_index, req.season)
                THEN /\ plan_terms' =
                          plan_terms
                            \cup {TermRow(termSeq + 1, userID, req.year_index, req.season)}
                     /\ termSeq' = termSeq + 1
                     /\ posting' = [posting EXCEPT ![j].at = "insertItem",
                                                   ![j].planTermID = termSeq + 1]
                ELSE /\ posting' = [posting EXCEPT ![j].at = "done", ![j].status = 500]
                     /\ UNCHANGED <<plan_terms, termSeq>>
  /\ UNCHANGED <<plan_items, itemSeq, request, response, served,
                 validateVars, loadVars, authVars, searchVars>>

\* lines 71-84: INSERT INTO plan_items under planTermID, then 201, or 500
\* when the statement fails
InsertItemStep ==
  /\ \E j \in 1..Len(posting) :
       LET req == posting[j].req
       IN  /\ posting[j].at = "insertItem"
           /\ IF ItemInsertable(plan_items, posting[j].planTermID, req.subject,
                                req.course_number, PLANNED)
                THEN /\ plan_items' =
                          plan_items
                            \cup {ItemRow(itemSeq + 1, posting[j].planTermID, req.subject,
                                          req.course_number, PLANNED, <<>>)}
                     /\ itemSeq' = itemSeq + 1
                     /\ posting' = [posting EXCEPT ![j].at = "done", ![j].status = 201]
                ELSE /\ posting' = [posting EXCEPT ![j].at = "done", ![j].status = 500]
                     /\ UNCHANGED <<plan_items, itemSeq>>
  /\ UNCHANGED <<plan_terms, termSeq, request, response, served,
                 validateVars, loadVars, authVars, searchVars>>

NextPosting ==
  \/ PostArrives
  \/ SelectTermStep
  \/ InsertTermStep
  \/ InsertItemStep

SpecPosting == InitPlan /\ [][NextPosting]_vars

(***************************************************************************)
(* JSON web tokens: RequireAuth and RefreshHandler.  A token string names  *)
(* one signed token; time is counted in quarters of an hour.               *)
(***************************************************************************)
MaxTokens == 6
MaxClock == 2

\* 15 * time.Minute and 7 * 24 * time.Hour
AccessLife == 1
RefreshLife == 672

\* what SignedString made: the claims, the algorithm of the header and the
\* key of the signature
Token(user, type, exp, alg, key) ==
  [user_id |-> user, token_type |-> type, exp |-> exp, alg |-> alg, key |-> key]

\* tokens this server did not just issue: an access token signed with
\* another key, an unsigned refresh token, and a refresh token of this
\* server that expired
ForeignTokens ==
  << Token(1, "access", RefreshLife, "HS256", "other"),
     Token(1, "refresh", RefreshLife, "none", ""),
     Token(1, "refresh", 0, "HS256", "jwtSecret") >>

GenerateRefreshToken(userID, clock) ==
  Token(userID, "refresh", clock + RefreshLife, "HS256", "jwtSecret")

GenerateAccessToken(userID, clock) ==
  Token(userID, "access", clock + AccessLife, "HS256", "jwtSecret")

\* the string of the n-th token
SignedString(n) == <<CHOOSE c \in Digits : DigitVal(c) = n>>

\* jwt.ParseWithClaims with the key function of ParseToken: the string must
\* be a token, signed with an HMAC method and with jwtSecret, not expired
ParseToken(tokenStr, tokens, clock) ==
  LET n == IF Len(tokenStr) = 1 /\ tokenStr[1] \in Digits THEN DigitVal(tokenStr[1]) ELSE 0
  IN  IF n \notin 1..Len(tokens) THEN [err |-> TRUE]
      ELSE IF tokens[n].alg # "HS256" THEN [err |-> TRUE]
      ELSE IF tokens[n].key # "jwtSecret" THEN [err |-> TRUE]
      ELSE IF ~(clock < tokens[n].exp) THEN [err |-> TRUE]
      ELSE [err |-> FALSE,
            claims |-> [user_id |-> tokens[n].user_id, token_type |-> tokens[n].token_type]]

\* variant: the token type is never tested
WrongType_Never(claims, wanted) == FALSE

\* claims.TokenType != AccessToken, claims.TokenType != RefreshToken
WrongType(claims, wanted) == claims.token_type # wanted

\* the token strings a client may send: every token made so far, a string
\* that is no token, and nothing
TokenStrings == {SignedString(n) : n \in 1..Len(minted)} \cup {<<"x">>, <<>>}

InitAuth ==
  /\ planItems = <<>> /\ program = <<>> /\ lookup = <<>>
  /\ pc = "none" /\ courseNumber = <<>> /\ units = <<>>
  /\ Idle
  /\ Alone
  /\ NoLoad
  /\ NoPlanner
  /\ now = 0
  /\ minted = ForeignTokens
  /\ authReq = [endpoint |-> "none"]
  /\ authResp = [status |-> 0]
  /\ accepted = {}
  /\ NoSearch

\* time passes
Tick ==
  /\ now < MaxClock
  /\ now' = now + 1
  /\ UNCHANGED <<minted, authReq, authResp, accepted, validateVars, loadVars, planVars, searchVars>>

\* LoginHandler, RegisterHandler: a user who signs in gets an access token
\* and a refresh token
LoginHandler ==
  /\ Len(minted) + 2 <= MaxTokens
  /\ \E userID \in {1, 2} :
       minted' = minted \o <<GenerateAccessToken(userID, now), GenerateRefreshToken(userID, now)>>
  /\ UNCHANGED <<now, authReq, authResp, accepted, validateVars, loadVars, planVars, searchVars>>

\* the tests of RequireAuth on the Authorization header: 401, or 200 with the
\* claims handed to the wrapped handler
CheckHeader(authHeader, tokens, clock) ==
  LET parts  == SplitN2(authHeader)
      parsed == ParseToken(parts[2], tokens, clock)
  IN  IF authHeader = <<>>
        THEN [status |-> 401]
      ELSE IF Len(parts) # 2 \/ parts[1] # <<"B", "e", "a", "r", "e", "r">>
        THEN [status |-> 401]
      ELSE IF parsed.err
        THEN [status |-> 401]
      ELSE IF WrongType(parsed.claims, "access")
        THEN [status |-> 401]
      ELSE [status |-> 200, claims |-> parsed.claims]

\* the Authorization header is a scheme ("Bearer ", "bearer ", "Bearer"
\* without the blank, or none) followed by a token string
RequireAuth ==
  /\ served < MaxRequests
  /\ \E scheme \in { <<"B", "e", "a", "r", "e", "r", " ">>,
                     <<"b", "e", "a", "r", "e", "r", " ">>,
                     <<"B", "e", "a", "r", "e", "r">>, <<>> },
        tokenStr \in TokenStrings :
       LET authHeader == scheme \o tokenStr
       IN  /\ authReq' = [endpoint |-> "api", authHeader |-> authHeader]
           /\ authResp' = CheckHeader(authHeader, minted, now)
           /\ accepted' = IF CheckHeader(authHeader, minted, now).status = 200
                             THEN accepted \cup {<<SplitN2(authHeader)[2], "api">>}
                             ELSE accepted
  /\ served' = served + 1
  /\ UNCHANGED <<now, minted, validateVars, loadVars, searchVars,
                 plan_terms, plan_items, termSeq, itemSeq, request, response, posting>>

RefreshHandler ==
  /\ served < MaxRequests
  /\ Len(minted) < MaxTokens
  /\ \E decoded \in BOOLEAN, tokenStr \in TokenStrings :
       LET parsed == ParseToken(tokenStr, minted, now)
       IN  /\ authReq' = [endpoint |-> "refresh", decoded |-> decoded,
                          refresh_token |-> IF decoded THEN tokenStr ELSE <<>>]
           /\ IF ~decoded
                THEN authResp' = [status |-> 400] /\ UNCHANGED <<minted, accepted>>
              ELSE IF parsed.err
                THEN authResp' = [status |-> 401] /\ UNCHANGED <<minted, accepted>>
              ELSE IF WrongType(parsed.claims, "refresh")
                THEN authResp' = [status |-> 401] /\ UNCHANGED <<minted, accepted>>
              ELSE /\ minted' = Append(minted, GenerateAccessToken(parsed.claims.user_id, now))
                   /\ authResp' = [status |-> 200,
                                   access_token |-> SignedString(Len(minted) + 1)]
                   /\ accepted' = accepted \cup {<<tokenStr, "refresh">>}
  /\ served' = served + 1
  /\ UNCHANGED <<now, validateVars, loadVars, searchVars,
                 plan_terms, plan_items, termSeq, itemSeq, request, response, posting>>

NextAuth ==
  \/ Tick
  \/ LoginHandler
  \/ RequireAuth
  \/ RefreshHandler

SpecAuth == InitAuth /\ [][NextAuth]_vars

(***************************************************************************)
(* The protected routes of main (src/unnamed/part_014:199-222): the        *)
(* handlers of /api/users/{id}/plan and /api/users/{id}/plan/{itemId} are  *)
(* wrapped in RequireAuth, which calls them with the claims of the token   *)
(* in the request context.                                                 *)
(***************************************************************************)
\* SELECT ... FROM plan_items pi JOIN plan_terms pt ON pt.plan_term_id =
\* pi.plan_term_id ... WHERE pt.user_id = ?
UserPlan(items, terms, userID) ==
  {it \in items : \E t \in terms : /\ t.plan_term_id = it.plan_term_id
                                   /\ t.user_id = userID}

\* the function GetUserPlanHandler returns, serving request req: the answer
\* is UserPlan for the user of the path
GetUserPlan(req) ==
  /\ request' = req
  /\ response' = IF BadID(req.user) THEN 400 ELSE 200
  /\ UNCHANGED <<plan_terms, plan_items, termSeq, itemSeq>>

\* pkg.RequireAuth(handler)(w, r): the middleware answers 401 itself or
\* calls the handler the route chose; the header is a token string sent as
\* Bearer, or is missing
Protected(req) ==
  \E authHeader \in {<<"B", "e", "a", "r", "e", "r", " ">> \o t : t \in TokenStrings}
                     \cup {<<>>} :
    LET checked == CheckHeader(authHeader, minted, now)
    IN  /\ authReq' = [endpoint |-> "api", authHeader |-> authHeader]
        /\ authResp' = checked
        /\ accepted' = IF checked.status = 200
                          THEN accepted \cup {<<SplitN2(authHeader)[2], "api">>}
                          ELSE accepted
        /\ IF checked.status # 200
             THEN /\ request' = req
                  /\ response' = 401
                  /\ UNCHANGED <<plan_terms, plan_items, termSeq, itemSeq>>
           \* next(w, withClaims(r, claims)): no handler reads the claims
           ELSE IF req.method = "GET" THEN GetUserPlan(req)
           ELSE IF req.method = "POST" THEN PostUserPlan(req)
           ELSE DeleteUserPlanItem(req)
        /\ served' = served + 1
        /\ UNCHANGED <<now, minted, posting, validateVars, loadVars, searchVars>>

\* a path ending in /plan: GET, and POST with a body the tables accept
RoutePlan ==
  /\ served < MaxRequests
  /\ \E req \in [method : {"GET"}, user : UserTexts]
                  \cup {r \in PostRequests :
                          r.year_index = 1 /\ r.season = <<"F", "a", "l", "l">>} :
       Protected(req)

\* DELETE on a path holding /plan/, for the ids of the first two items
RoutePlanItem ==
  /\ served < MaxRequests
  /\ \E req \in {r \in DeleteRequests : r.item \in {<<"1">>, <<"2">>}} : Protected(req)

NextRoutes ==
  \/ Tick
  \/ LoginHandler
  \/ RoutePlan
  \/ RoutePlanItem

SpecRoutes == InitAuth /\ [][NextRoutes]_vars

(***************************************************************************)
(* Repository.SearchCourses(q, limit, offset) over table courses.          *)
(***************************************************************************)
MaxCourses == 4
MaxPage == 3

\* a row of table courses; course_name and professor are <<>> (NULL) or <<text>>
CatalogRow(id, subject, number, name, professor, term) ==
  [id |-> id, subject |-> subject, course_number |-> number, course_name |-> name,
   professor |-> professor, term |-> term]

\* the rows the catalog is drawn from; rows 1 and 4 are one course in two terms
CatalogRows ==
  { CatalogRow(1, sCS, n1A03, <<<<"S", "e", "t", "s">>>>, <<>>, <<"F">>),
    CatalogRow(2, sCS, n1B03, <<>>, <<<<"L", "i">>>>, <<"F">>),
    CatalogRow(3, <<"S", "E">>, n1A03, <<<<"T", "e", "s", "t">>>>, <<>>, <<"F">>),
    CatalogRow(4, sCS, n1A03, <<<<"S", "e", "t", "s">>>>, <<>>, <<"W">>),
    CatalogRow(5, <<"S", "E">>, n2C03, <<>>, <<>>, <<"F">>) }

\* the texts searched for
Queries ==
  { <<>>, <<"c", "s">>, <<"1", "a">>, <<"c", "s", " ", " ", "1", "a">>,
    <<" ", "s", "e", "\t">>, <<"_", "b">>, <<"l", "i", " ", "x">> }

InitSearch ==
  /\ planItems = <<>> /\ program = <<>> /\ lookup = <<>>
  /\ pc = "none" /\ courseNumber = <<>> /\ units = <<>>
  /\ Idle
  /\ Alone
  /\ NoLoad
  /\ NoPlanner
  /\ NoAuth
  /\ coursesTable \in {t \in SUBSET CatalogRows : Cardinality(t) <= MaxCourses}
  /\ searchArgs = [q |-> <<>>, limit |-> 0, offset |-> 0]
  /\ searchOut = [called |-> FALSE]

RECURSIVE Fields(_)
\* strings.Fields: the maximal pieces of s without white space
Fields(s) ==
  LET t   == TrimLeft(s)
      end == IF \E p \in 1..Len(t) : IsSpace(t[p])
               THEN CHOOSE p \in 1..Len(t) :
                      IsSpace(t[p]) /\ \A r \in 1..(p - 1) : ~IsSpace(t[r])
               ELSE Len(t) + 1
  IN  IF t = <<>> THEN <<>>
      ELSE <<SubSeq(t, 1, end - 1)>> \o Fields(SubSeq(t, end, Len(t)))

RECURSIVE Like(_, _)
\* text LIKE pattern in SQLite: % is any text, _ any one character, letters
\* match without regard to case
Like(text, pattern) ==
  IF pattern = <<>> THEN text = <<>>
  ELSE IF Head(pattern) = "%"
    THEN Like(text, Tail(pattern)) \/ (text # <<>> /\ Like(Tail(text), pattern))
  ELSE /\ text # <<>>
       /\ Head(pattern) = "_" \/ ToUpperChar(Head(pattern)) = ToUpperChar(Head(text))
       /\ Like(Tail(text), Tail(pattern))

\* the WHERE clause: every token is LIKE-contained in one of the four
\* columns; a NULL column matches nothing
Where(tokens, row) ==
  \A j \in 1..Len(tokens) :
    LET pat == <<"%">> \o tokens[j] \o <<"%">>
    IN  \/ Like(row.subject, pat)
        \/ Like(row.course_number, pat)
        \/ row.course_name # <<>> /\ Like(row.course_name[1], pat)
        \/ row.professor # <<>> /\ Like(row.professor[1], pat)

RECURSIVE TextLess(_, _)
\* s < t in the collation BINARY; bytes lists the characters of the columns
\* subject and course_number in byte order
TextLess(s, t) ==
  LET bytes   == <<"0", "1", "2", "3", "A", "B", "C", "E", "S">>
      rank(c) == CHOOSE p \in 1..Len(bytes) : bytes[p] = c
  IN  IF t = <<>> THEN FALSE
      ELSE IF s = <<>> THEN TRUE
      ELSE IF Head(s) # Head(t) THEN rank(Head(s)) < rank(Head(t))
      ELSE TextLess(Tail(s), Tail(t))

\* a sorts before b by ORDER BY subject, course_number
OrderBefore(a, b) ==
  \/ TextLess(a.subject, b.subject)
  \/ a.subject = b.subject /\ TextLess(a.course_number, b.course_number)

RECURSIVE Ordered(_)
\* the orders ORDER BY subject, course_number may deliver rows in: rows with
\* equal subject and course_number come in any order
Ordered(rows) ==
  IF rows = {} THEN {<<>>}
  ELSE UNION { {<<m>> \o rest : rest \in Ordered(rows \ {m})} :
               m \in {r \in rows : \A o \in rows : ~OrderBefore(o, r)} }

\* variant: OFFSET is not applied
LimitOffset_FromStart(rows, limit, offset) ==
  SubSeq(rows, 1, IF limit < Len(rows) THEN limit ELSE Len(rows))

\* LIMIT limit OFFSET offset, limit > 0: SQLite takes a negative OFFSET as 0
LimitOffset(rows, limit, offset) ==
  LET skip == IF offset < 0 THEN 0 ELSE offset
      last == IF skip + limit < Len(rows) THEN skip + limit ELSE Len(rows)
  IN  IF skip >= Len(rows) THEN <<>> ELSE SubSeq(rows, skip + 1, last)

\* rows.Scan into a Course: a NULL course_name or professor becomes ""
Course(row) ==
  [ID |-> row.id, Subject |-> row.subject, CourseNumber |-> row.course_number,
   CourseName |-> IF row.course_name = <<>> THEN <<>> ELSE row.course_name[1],
   Professor |-> IF row.professor = <<>> THEN <<>> ELSE row.professor[1],
   Term |-> row.term]

\* fail: which database call fails, if any: the count query, the page query,
\* or the iteration over its rows after cut rows
SearchCourses ==
  /\ ~searchOut.called
  /\ \E q \in Queries, limit \in (0 - 1)..MaxPage, offset \in (0 - 1)..MaxPage,
        fail \in {"", "count", "query", "rows"} :
       LET tokens  == Fields(TrimSpace(q))
           matches == {r \in coursesTable : Where(tokens, r)}
           total   == Cardinality(matches)
       IN  /\ searchArgs' = [q |-> q, limit |-> limit, offset |-> offset]
           /\ IF fail \in {"count", "query"}
                THEN searchOut' = [called |-> TRUE, out |-> <<>>, total |-> 0, err |-> TRUE]
              ELSE \E order \in Ordered(matches) :
                     LET page == IF limit > 0 THEN LimitOffset(order, limit, offset) ELSE order
                     IN  \E cut \in 0..Len(page) :
                           /\ fail = "" => cut = Len(page)
                           /\ searchOut' =
                                [called |-> TRUE,
                                 out |-> [p \in 1..cut |-> Course(page[p])],
                                 total |-> total,
                                 err |-> fail # ""]
  /\ UNCHANGED <<coursesTable, validateVars, loadVars, planVars, authVars>>

SpecSearch == InitSearch /\ [][SearchCourses]_vars

(***************************************************************************)
(* Properties.  What the specification says is written here in its own     *)
(* terms (the OR-chain of a slot, the course number of a code, the         *)
(* pre-order of a tree), not with the operators of the walk above.         *)
(***************************************************************************)
AllLookupsSucceed == \A j \in 1..Len(lookup) : lookup[j].kind = "ok"

\* the course number of a code "SUBJECT NUMBER": what follows the first blank
NumberOf(code) ==
  IF \E p \in 1..Len(code) : code[p] = " "
    THEN LET p == CHOOSE q \in 1..Len(code) :
                    code[q] = " " /\ \A r \in 1..(q - 1) : code[r] # " "
         IN  SubSeq(code, p + 1, Len(code))
    ELSE <<>>

\* the unit value inferred from a course code
InferredUnits(code) == unitsFromCourseNumber(NumberOf(code), 3)

RECURSIVE OrChainEnd(_, _)
\* the last slot of the OR-chain that starts at slot `at`: the first slot from
\* `at` on without the OR-with-next flag, or the last slot of the list
OrChainEnd(courses, at) ==
  IF at >= Len(courses) \/ ~courses[at].IsOrWithNext
    THEN at
    ELSE OrChainEnd(courses, at + 1)

OrChain(courses, at) == SubSeq(courses, at, OrChainEnd(courses, at))

CodesOf(slots) == [c \in 1..Len(slots) |-> slots[c].CourseCode]

NonEmpty(codes) == SelectSeq(codes, LAMBDA c : c # <<>>)

AtChainStart == pc = "slots" /\ i <= Len(g.Courses) /\ g.Courses[i].IsOrWithNext

AtSingleSlot == pc = "slots" /\ i <= Len(g.Courses) /\ ~g.Courses[i].IsOrWithNext

\* C1: when every prerequisite lookup succeeds, ValidatePlan returns a result
\* (no error, no panic) for every plan and every program tree.
C1_AlwaysReturnsResult ==
  (pc = "done" /\ AllLookupsSucceed) => ret.status = "ok"

\* C2: an OR-chain with a member whose code is in the completion index adds
\* exactly the inferred units of its first completed member to the group's
\* units_completed and adds nothing to missing_courses.
C2_SatisfiedChainAddsOneMember ==
  [][ LET codes == CodesOf(OrChain(g.Courses, i))
      IN  (AtChainStart /\ \E c \in 1..Len(codes) : codes[c] \in completedSet)
            => LET first == CHOOSE c \in 1..Len(codes) :
                              /\ codes[c] \in completedSet
                              /\ \A d \in 1..(c - 1) : codes[d] \notin completedSet
               IN  /\ unitsCompleted' = unitsCompleted + InferredUnits(codes[first])
                   /\ missing' = missing ]_vars

\* C3: an OR-chain none of whose members' codes is in the completion index
\* adds 0 units and appends to missing_courses exactly the non-empty codes of
\* all its members, each once, in slot order.
C3_UnsatisfiedChainAllMissing ==
  [][ LET codes == CodesOf(OrChain(g.Courses, i))
      IN  (AtChainStart /\ \A c \in 1..Len(codes) : codes[c] \notin completedSet)
            => /\ unitsCompleted' = unitsCompleted
               /\ missing' = missing \o NonEmpty(codes)
               /\ pc' = "slots" ]_vars

\* a chain of three real courses, none completed, has been walked and the three
\* codes are the missing list
C3_Witness ==
  /\ pc = "slots"
  /\ Len(g.Courses) = 3
  /\ i = 4
  /\ g.Courses[1].IsOrWithNext /\ g.Courses[2].IsOrWithNext /\ ~g.Courses[3].IsOrWithNext
  /\ CodesOf(g.Courses) = <<Code(sCS, n1A03), Code(sCS, n1B03), Code(sCS, n1P13)>>
  /\ completedSet = {Code(sCS, n2D_5)}
  /\ unitsCompleted = 0
  /\ missing = <<Code(sCS, n1A03), Code(sCS, n1B03), Code(sCS, n1P13)>>

SpecIsContainer(gr) ==
  gr.IsContainer \/ (Len(gr.Courses) = 0 /\ Len(gr.Children) >= 1)

RECURSIVE Nodes(_)
\* every group of a forest, at any depth
Nodes(forest) ==
  UNION {{forest[j]} \cup Nodes(forest[j].Children) : j \in 1..Len(forest)}

RowsOf(rows, heading) == {r \in 1..Len(rows) : rows[r].Heading = heading}

\* C4: a container group emits no row of its own and adds nothing to the
\* totals; every non-container group of the tree, at any depth, emits exactly
\* one row.
C4_ContainerPassThrough ==
  /\ [](ret.status = "ok" =>
          \A gr \in Nodes(program) :
            Cardinality(RowsOf(ret.value.Groups, gr.Heading))
              = IF SpecIsContainer(gr) THEN 0 ELSE 1)
  /\ [][(pc = "walk" /\ todo # <<>> /\ SpecIsContainer(Head(todo)))
          => /\ groupResults' = groupResults
             /\ totalRequired' = totalRequired
             /\ totalCompleted' = totalCompleted]_vars

\* a flagged container with a units_required value and two children returned
\* two rows, and no total counts its 30 units
C4_Witness ==
  /\ ret.status = "ok"
  /\ Len(program) = 1
  /\ program[1].IsContainer /\ program[1].UnitsRequired = <<30>>
  /\ Len(program[1].Children) = 2
  /\ \A c \in 1..2 : ~SpecIsContainer(program[1].Children[c])
  /\ Len(ret.value.Groups) = 2
  /\ ret.value.TotalUnitsRequired < 30

RECURSIVE OrList(_)
\* the options separated by " or "
OrList(options) ==
  IF Len(options) = 1 THEN options[1]
  ELSE options[1] \o <<" ", "o", "r", " ">> \o OrList(Tail(options))

\* C5: a PLANNED or IN_PROGRESS item whose lookup returns n rows gets no
\* warning when n = 0 or one of the n courses is in the completion index, and
\* otherwise exactly one warning: its own code, all n options joined by " or ".
C5_PrereqOrSemantics ==
  [][ (/\ pc = "prereq" /\ k <= Len(planItems)
       /\ planItems[k].Status \in {PLANNED, IN_PROGRESS}
       /\ lookup[k].kind = "ok")
        => LET pi      == planItems[k]
               rows    == lookup[k].rows
               options == [r \in 1..Len(rows) |-> Code(rows[r].rs, rows[r].rn)]
           IN  IF Len(rows) = 0 \/ \E r \in 1..Len(rows) : options[r] \in completedSet
                 THEN prereqWarnings' = prereqWarnings
                 ELSE prereqWarnings' =
                        Append(prereqWarnings,
                               [Course |-> Code(pi.Subject, pi.CourseNumber),
                                MissingPrereq |-> OrList(options)]) ]_vars

\* CS 2C03 is planned, its two alternative prerequisites are both not
\* completed, and the one warning names both
C5_Witness ==
  /\ pc = "prereq" /\ k = 2
  /\ planItems[1] = PlanItem(sCS, n2C03, PLANNED)
  /\ lookup[1] = Outcome("ok", <<ReqRow(sCS, n1A03), ReqRow(sCS, n1B03)>>)
  /\ prereqWarnings =
       <<[Course |-> <<"C", "S", " ", "2", "C", "0", "3">>,
          MissingPrereq |-> <<"C", "S", " ", "1", "A", "0", "3", " ", "o", "r", " ",
                              "C", "S", " ", "1", "B", "0", "3">>]>>

RECURSIVE SumRequired(_)
SumRequired(rows) ==
  IF rows = <<>> THEN 0
  ELSE (IF Head(rows).UnitsRequired > 0 THEN Head(rows).UnitsRequired ELSE 0)
         + SumRequired(Tail(rows))

RECURSIVE SumCompleted(_)
SumCompleted(rows) ==
  IF rows = <<>> THEN 0
  ELSE (IF Head(rows).UnitsCompleted > 0 THEN Head(rows).UnitsCompleted ELSE 0)
         + SumCompleted(Tail(rows))

\* C6: in every result the totals are the sums over the rows of the positive
\* units_required and units_completed, and units_remaining is their
\* difference clamped at 0.
C6_TotalsConsistent ==
  ret.status = "ok" =>
    LET v == ret.value
    IN  /\ v.TotalUnitsRequired = SumRequired(v.Groups)
        /\ v.TotalUnitsCompleted = SumCompleted(v.Groups)
        /\ v.UnitsRemaining = IF v.TotalUnitsRequired - v.TotalUnitsCompleted > 0
                                THEN v.TotalUnitsRequired - v.TotalUnitsCompleted
                                ELSE 0
        /\ v.UnitsRemaining >= 0

\* an over-completed plan: more units completed than required, 0 remaining
C6_Witness ==
  /\ ret.status = "ok"
  /\ ret.value.TotalUnitsRequired = 6
  /\ ret.value.TotalUnitsCompleted > 6
  /\ ret.value.UnitsRemaining = 0

Suffix(s) == SubSeq(s, Len(s) - 1, Len(s))

\* the text of a decimal number of two characters: two digits, or a sign and a digit
IsNumberText(t) == t[2] \in Digits /\ t[1] \in Digits \cup {"+", "-"}

\* C7: unitsFromCourseNumber(n, 3) is the value of the last two characters
\* when they are two digits other than "00"; it is 3 when n has fewer than two
\* characters, when the suffix is not a number and when it is "00".
C7_UnitInference ==
  pc = "returned" =>
    /\ (Len(courseNumber) >= 2 /\ Suffix(courseNumber)[1] \in Digits
          /\ Suffix(courseNumber)[2] \in Digits
          /\ Suffix(courseNumber) # <<"0", "0">>)
         => units = <<10 * DigitVal(Suffix(courseNumber)[1]) + DigitVal(Suffix(courseNumber)[2])>>
    /\ (Len(courseNumber) < 2 \/ ~IsNumberText(Suffix(courseNumber))
          \/ Suffix(courseNumber) = <<"0", "0">>)
         => units = <<3>>

\* the call with a course number that ends in "00" returned 3
C7_Witness ==
  /\ pc = "returned"
  /\ courseNumber = <<"1", "0", "0">>
  /\ units = <<3>>

\* C8: a slot without the OR flag whose code is in the completion index adds
\* the units inferred from its own course number; one whose non-empty code is
\* not in the index is appended to missing_courses.
C8_SingleSlot ==
  [][ AtSingleSlot =>
        LET code == g.Courses[i].CourseCode
        IN  IF code \in completedSet
              THEN /\ unitsCompleted' = unitsCompleted + InferredUnits(code)
                   /\ missing' = missing
              ELSE /\ unitsCompleted' = unitsCompleted
                   /\ missing' = IF code # <<>> THEN Append(missing, code) ELSE missing ]_vars

\* C9: a failed requisite lookup ends the invocation: the error is returned
\* with the zero ValidationResult and no later item is looked up.
C9_LookupFailureReturned ==
  \A p \in 1..Len(queried) :
    lookup[queried[p]].kind # "ok"
      => /\ p = Len(queried)
         /\ pc = "done"
         /\ ret.status = "error"
         /\ ret.value = ZeroResult

RECURSIVE PreOrder(_)
\* the headings of the non-container groups, each group before its children
PreOrder(forest) ==
  IF forest = <<>> THEN <<>>
  ELSE (IF SpecIsContainer(Head(forest)) THEN <<>> ELSE <<Head(forest).Heading>>)
         \o PreOrder(Head(forest).Children) \o PreOrder(Tail(forest))

\* C10: the groups of the result are the non-container groups of the tree in
\* depth-first pre-order, one row each, heading copied.
C10_RowsInPreOrder ==
  ret.status = "ok" =>
    [r \in 1..Len(ret.value.Groups) |-> ret.value.Groups[r].Heading] = PreOrder(program)

\* a group with course slots and a child, followed by a sibling: three rows
C10_Witness ==
  /\ ret.status = "ok"
  /\ Len(program) = 2
  /\ ~SpecIsContainer(program[1]) /\ Len(program[1].Courses) > 0
  /\ Len(program[1].Children) = 1
  /\ Len(ret.value.Groups) = 3

\* the statuses PLANNED and IN_PROGRESS, letter case ignored
IsActiveStatus(st) ==
  \E t \in {PLANNED, IN_PROGRESS} :
    Len(st) = Len(t) /\ \A p \in 1..Len(t) : ToUpperChar(st[p]) = t[p]

StrictlyIncreasing(f) == \A p, q \in DOMAIN f : p < q => f[p] < f[q]

\* C11: the warnings belong to distinct plan items with status PLANNED or
\* IN_PROGRESS (letter case ignored), at most one each, in plan order; only
\* such items are looked up, each once, so a COMPLETED or DROPPED item causes
\* neither a lookup nor a warning; the result carries exactly these warnings.
C11_WarningsFollowActiveItems ==
  /\ StrictlyIncreasing(queried)
  /\ \A p \in 1..Len(queried) : IsActiveStatus(planItems[queried[p]].Status)
  /\ \E f \in [1..Len(prereqWarnings) -> 1..Len(queried)] :
       /\ StrictlyIncreasing(f)
       /\ \A w \in 1..Len(prereqWarnings) :
            LET pi == planItems[queried[f[w]]]
            IN  prereqWarnings[w].Course = Code(pi.Subject, pi.CourseNumber)
  /\ ret.status = "ok" => ret.value.PrereqWarnings = prereqWarnings

\* a COMPLETED item followed by a "planned" one whose prerequisite is missing:
\* one lookup, for the second item, and one warning
C11_Witness ==
  /\ ret.status = "ok"
  /\ Len(planItems) = 2
  /\ planItems[1].Status = COMPLETED
  /\ planItems[2].Status = planned
  /\ queried = <<2>>
  /\ Len(ret.value.PrereqWarnings) = 1
  /\ ret.value.PrereqWarnings[1].Course = Code(sCS, n2C03)

\* C12 as stated: an empty program tree or a zero-length plan never yields an
\* error.
C12_NeverAnErrorOnEmptyInput ==
  (pc = "done" /\ (program = <<>> \/ planItems = <<>>)) => ret.status = "ok"

\* C12, amended: a zero-length plan always yields a result, with no warning,
\* no lookup and 0 units completed; an empty program tree yields an error only
\* when a lookup of a plan item failed, and otherwise a result without group
\* rows whose three totals are 0.
C12_EmptyInputs ==
  /\ (pc = "done" /\ planItems = <<>>)
       => /\ ret.status = "ok"
          /\ ret.value.PrereqWarnings = <<>>
          /\ queried = <<>>
          /\ ret.value.TotalUnitsCompleted = 0
  /\ (pc = "done" /\ program = <<>>)
       => \/ /\ ret.status = "error"
             /\ \E j \in 1..Len(planItems) :
                  IsActiveStatus(planItems[j].Status) /\ lookup[j].kind # "ok"
          \/ /\ ret.status = "ok"
             /\ ret.value.Groups = <<>>
             /\ ret.value.TotalUnitsRequired = 0
             /\ ret.value.TotalUnitsCompleted = 0
             /\ ret.value.UnitsRemaining = 0

\* a plan of two items, one of them looked up, validated against a program
\* without groups: a result with zero totals
C12_Witness ==
  /\ ret.status = "ok"
  /\ program = <<>>
  /\ Len(planItems) = 2
  /\ Len(queried) = 1
  /\ ret.value.Groups = <<>>
  /\ ret.value.UnitsRemaining = 0

\* C20: every emitted group row has satisfied = (missing_courses is empty)
\* when its units_required is 0, and satisfied = (units_completed >=
\* units_required) otherwise.
C20_SatisfiedRule ==
  /\ \A r \in 1..Len(groupResults) :
       LET row == groupResults[r]
       IN  row.Satisfied <=> IF row.UnitsRequired = 0
                               THEN row.MissingCourses = <<>>
                               ELSE row.UnitsCompleted >= row.UnitsRequired
  /\ ret.status = "ok" => ret.value.Groups = groupResults

\* a group with threshold 6 returned satisfied although a course of it is
\* missing
C20_Witness ==
  /\ ret.status = "ok"
  /\ Len(ret.value.Groups) = 1
  /\ ret.value.Groups[1].UnitsRequired = 6
  /\ ret.value.Groups[1].Satisfied
  /\ ret.value.Groups[1].MissingCourses # <<>>

\* the invocations of the behaviour: the running one and the waiting ones
Invocations == {Frame} \cup {saved[j] : j \in 1..Len(saved)}

\* C13: two invocations with the same plan items, program tree and lookup
\* answers that have returned have returned the same, whatever ran before or
\* between their steps; and no step of an invocation changes its plan items
\* or its program tree.
C13_Deterministic ==
  /\ [](\A a, b \in Invocations :
          (/\ a.pc = "done" /\ b.pc = "done"
           /\ a.planItems = b.planItems /\ a.program = b.program /\ a.lookup = b.lookup)
            => a.ret = b.ret)
  /\ [][saved' = saved => (planItems' = planItems /\ program' = program)]_vars

\* two invocations with the same one-item plan ran interleaved and both
\* returned the warning
C13_Witness ==
  /\ Len(saved) = 1
  /\ pc = "done" /\ saved[1].pc = "done"
  /\ planItems = saved[1].planItems /\ program = saved[1].program
  /\ lookup = saved[1].lookup
  /\ ret.status = "ok"
  /\ Len(ret.value.PrereqWarnings) = 1
  /\ saved[1].ret = ret

\* the rows of `table` whose parent is `parent`, by display_order
SiblingsInOrder(table, parent) ==
  LET kids == {r \in table : r.parent_group_id = parent}
  IN  [c \in 1..Cardinality(kids) |->
         CHOOSE r \in kids :
           Cardinality({x \in kids : x.display_order < r.display_order}) = c - 1]

\* the course rows of group id, by display_order
SlotsInOrder(slots, id) ==
  LET mine == {r \in slots : r.group_id = id}
  IN  [c \in 1..Cardinality(mine) |->
         LET r == CHOOSE x \in mine :
                    Cardinality({y \in mine : y.display_order < x.display_order}) = c - 1
         IN  [ReqCourseID |-> r.req_course_id, GroupID |-> r.group_id,
              DisplayOrder |-> r.display_order, CourseCode |-> r.course_code]]

RECURSIVE TreeUnder(_, _, _)
\* the tree the tables describe below `parent`
TreeUnder(table, slots, parent) ==
  LET kids == SiblingsInOrder(table, parent)
  IN  [c \in 1..Len(kids) |->
         [GroupID |-> kids[c].group_id, ParentGroupID |-> kids[c].parent_group_id,
          DisplayOrder |-> kids[c].display_order,
          Courses |-> SlotsInOrder(slots, kids[c].group_id),
          Children |-> TreeUnder(table, slots, <<kids[c].group_id>>)]]

TableTree ==
  TreeUnder({groupRows[p] : p \in 1..Len(groupRows)},
            {courseRows[p] : p \in 1..Len(courseRows)}, <<>>)

\* C14: GetProgramWithGroups returns the full tree of the program: every group
\* row once, under its parent, siblings and course slots by display_order,
\* whatever order the map childrenOf is ranged over.
C14_FullTreeLoaded ==
  loadPc = "done" => loaded = TableTree

\* a path text that is the decimal numeral of a user or item: digits, not 0
IsID(text) ==
  /\ text # <<>>
  /\ \A p \in 1..Len(text) : text[p] \in Digits
  /\ DecimalValue(text) # 0

\* this step serves a request of the given method
Serves(method) == served' = served + 1 /\ request'.method = method

\* the term of user u for (year, season), as a set
TermsFor(u, year, season) ==
  {t \in plan_terms : t.user_id = u /\ t.year_index = year /\ t.season = season}

\* C15: there is never more than one plan_terms row per (user_id, year_index,
\* season); a POST for a (year_index, season) the user already has a term for
\* creates no term row and, when the course is not yet in that term, inserts
\* it under that term and answers 201.
C15_TermReused ==
  /\ [](\A a, b \in plan_terms :
          (a.user_id = b.user_id /\ a.year_index = b.year_index /\ a.season = b.season)
            => a = b)
  /\ [][ (Serves("POST") /\ IsID(request'.user))
           => LET req == request'
                  has == TermsFor(DecimalValue(req.user), req.year_index, req.season)
              IN  \A t \in has :
                    /\ plan_terms' = plan_terms
                    /\ (\A it \in plan_items :
                          ~(/\ it.plan_term_id = t.plan_term_id
                            /\ it.subject = req.subject
                            /\ it.course_number = req.course_number))
                         => /\ response' = 201
                            /\ \E new \in plan_items' \ plan_items :
                                 /\ plan_items' = plan_items \cup {new}
                                 /\ new.plan_term_id = t.plan_term_id
                                 /\ new.subject = req.subject
                                 /\ new.course_number = req.course_number ]_vars

\* two courses were added to the same term of user 1: one term row, two items
C15_Witness ==
  /\ served = 2
  /\ response = 201
  /\ Cardinality(plan_terms) = 1
  /\ Cardinality(plan_items) = 2
  /\ \A it \in plan_items : \A t \in plan_terms : it.plan_term_id = t.plan_term_id

\* C16: a POST whose year_index is outside 1..8 is answered with 500 and
\* leaves plan_terms and plan_items unchanged.
C16_BadYearRejected ==
  [][ (/\ Serves("POST") /\ IsID(request'.user)
       /\ (request'.year_index < 1 \/ request'.year_index > 8))
        => /\ response' = 500
           /\ plan_terms' = plan_terms
           /\ plan_items' = plan_items ]_vars

\* after a course was added, a POST with year_index 0 got 500 and the tables
\* are as they were
C16_Witness ==
  /\ served = 2
  /\ request.method = "POST"
  /\ request.year_index = 0
  /\ response = 500
  /\ Cardinality(plan_terms) = 1
  /\ Cardinality(plan_items) = 1

\* item i of the table, as a set
ItemsWithID(id) == {it \in plan_items : it.plan_item_id = id}

\* the users item id belongs to: the owners of the terms it is in
OwnersOfItem(id) ==
  {t.user_id : t \in {x \in plan_terms :
                        \E it \in ItemsWithID(id) : it.plan_term_id = x.plan_term_id}}

ServesItemRequest ==
  /\ Serves("DELETE") \/ Serves("PATCH")
  /\ IsID(request'.user) /\ IsID(request'.item)

ValidPatchStatus(req) ==
  req.method = "PATCH" => req.body.status \in {PLANNED, IN_PROGRESS, COMPLETED, DROPPED}

\* what a DELETE or PATCH that goes through does to the table
ItemEffect(req) ==
  LET id == DecimalValue(req.item)
  IN  IF req.method = "DELETE"
        THEN plan_items' = plan_items \ ItemsWithID(id)
        ELSE plan_items' =
               (plan_items \ ItemsWithID(id))
                 \cup {[it EXCEPT !.status = req.body.status, !.grade = req.body.grade] :
                         it \in ItemsWithID(id)}

\* C17 as stated: 404 whenever item i does not exist, 403 whenever it belongs
\* to another user, 400 whenever a PATCH status is not allowed, plan_items
\* unchanged in the three cases; otherwise item i alone is deleted or updated.
C17_AsStated ==
  [][ ServesItemRequest
        => LET req == request'
               u   == DecimalValue(req.user)
               id  == DecimalValue(req.item)
           IN  /\ ItemsWithID(id) = {} => (response' = 404 /\ plan_items' = plan_items)
               /\ (ItemsWithID(id) # {} /\ u \notin OwnersOfItem(id))
                    => (response' = 403 /\ plan_items' = plan_items)
               /\ ~ValidPatchStatus(req) => (response' = 400 /\ plan_items' = plan_items)
               /\ (ItemsWithID(id) # {} /\ u \in OwnersOfItem(id) /\ ValidPatchStatus(req))
                    => ItemEffect(req) ]_vars

\* C17, amended: a PATCH status that is not allowed is answered 400 first,
\* whether or not the item exists; otherwise 404 when item i does not exist
\* and 403 when it belongs to another user; plan_items is unchanged in the
\* three cases, and else item i alone is deleted or updated.
C17_OwnedItemOnly ==
  [][ ServesItemRequest
        => LET req == request'
               u   == DecimalValue(req.user)
               id  == DecimalValue(req.item)
           IN  IF ~ValidPatchStatus(req)
                 THEN response' = 400 /\ plan_items' = plan_items
               ELSE IF ItemsWithID(id) = {}
                 THEN response' = 404 /\ plan_items' = plan_items
               ELSE IF u \notin OwnersOfItem(id)
                 THEN response' = 403 /\ plan_items' = plan_items
               ELSE ItemEffect(req) /\ response' = 204 ]_vars

\* user 1 added two courses and deleted the first: 204, and the second item
\* is still there as it was
C17_Witness ==
  /\ served = 3
  /\ request.method = "DELETE"
  /\ request.user = <<"1">>
  /\ request.item = <<"1">>
  /\ response = 204
  /\ plan_items = {[plan_item_id |-> 2, plan_term_id |-> 1, subject |-> sCS,
                    course_number |-> n1B03, status |-> PLANNED, grade |-> <<>>]}

\* the strings of the tokens of the given type, and of those among them that
\* are valid now: signed by this server with HS256 and not yet expired
StringsOfType(type) ==
  {SignedString(n) : n \in {m \in 1..Len(minted) : minted[m].token_type = type}}

ValidNow(type) ==
  {SignedString(n) :
     n \in {m \in 1..Len(minted) :
              /\ minted[m].token_type = type
              /\ minted[m].alg = "HS256"
              /\ minted[m].key = "jwtSecret"
              /\ now < minted[m].exp}}

BearerHeader(tokenStr) == <<"B", "e", "a", "r", "e", "r", " ">> \o tokenStr

AuthServes(endpoint) == served' = served + 1 /\ authReq'.endpoint = endpoint

\* C18: RequireAuth runs the wrapped handler only for a bearer token that is
\* valid and of type access, and answers 401 to a refresh token;
\* RefreshHandler issues a token only for a valid token of type refresh,
\* answers 401 to an access token, and what it issues is an access token; no
\* token is ever accepted by both.
C18_TypesNotInterchangeable ==
  /\ [][ AuthServes("api")
           => /\ authResp'.status = 200
                   => \E t \in ValidNow("access") : authReq'.authHeader = BearerHeader(t)
              /\ (\E t \in StringsOfType("refresh") : authReq'.authHeader = BearerHeader(t))
                   => authResp'.status = 401
              /\ minted' = minted ]_vars
  /\ [][ AuthServes("refresh")
           => /\ (authResp'.status = 200 \/ minted' # minted)
                   => /\ authReq'.decoded
                      /\ authReq'.refresh_token \in ValidNow("refresh")
                      /\ authResp'.status = 200
                      /\ Len(minted') = Len(minted) + 1
                      /\ SubSeq(minted', 1, Len(minted)) = minted
                      /\ minted'[Len(minted')].token_type = "access"
                      /\ authResp'.access_token = SignedString(Len(minted'))
              /\ (authReq'.decoded /\ authReq'.refresh_token \in StringsOfType("access"))
                   => authResp'.status = 401 /\ minted' = minted ]_vars
  /\ [](\A t \in TokenStrings : ~(<<t, "api">> \in accepted /\ <<t, "refresh">> \in accepted))

\* after a login the access token was accepted by RequireAuth and the refresh
\* token by RefreshHandler, and RequireAuth has just answered 401 to the
\* refresh token, which is still valid
C18_Witness ==
  /\ served = 3
  /\ \E t \in TokenStrings : <<t, "api">> \in accepted
  /\ \E t \in TokenStrings : <<t, "refresh">> \in accepted
  /\ authReq.endpoint = "api"
  /\ authResp.status = 401
  /\ \E t \in ValidNow("refresh") : authReq.authHeader = BearerHeader(t)

\* the words of q: its maximal runs of characters that are not white space
WordsOf(q) ==
  {SubSeq(q, a, b) : <<a, b>> \in
     {ab \in (1..Len(q)) \X (1..Len(q)) :
        /\ ab[1] <= ab[2]
        /\ \A p \in ab[1]..ab[2] : q[p] \notin {" ", "\t"}
        /\ ab[1] = 1 \/ q[ab[1] - 1] \in {" ", "\t"}
        /\ ab[2] = Len(q) \/ q[ab[2] + 1] \in {" ", "\t"}}}

\* word occurs in text, letters compared without case, _ standing for any
\* character
Occurs(word, text) ==
  \E at \in 0..(Len(text) - Len(word)) :
    \A j \in 1..Len(word) :
      word[j] = "_" \/ ToUpperChar(word[j]) = ToUpperChar(text[at + j])

\* the rows matching q: every word of q occurs in the subject, the course
\* number, the course name or the professor
Matching(q) ==
  {r \in coursesTable :
     \A w \in WordsOf(q) :
       \E text \in {r.subject, r.course_number}
                     \cup {r.course_name[p] : p \in 1..Len(r.course_name)}
                     \cup {r.professor[p] : p \in 1..Len(r.professor)} :
         Occurs(w, text)}

\* a comes strictly before b in (subject, course_number) order
KeyBefore(a, b) ==
  \/ TextLess(a.subject, b.subject)
  \/ a.subject = b.subject /\ TextLess(a.course_number, b.course_number)

Smaller(a, b) == IF a < b THEN a ELSE b

\* the returned page holds count rows of the matches, from the 0-based
\* position from on, of an enumeration of the matches in (subject,
\* course_number) order, as far as there are that many
IsWindow(from, count) ==
  LET S    == Matching(searchArgs.q)
      out  == searchOut.out
      O    == {r \in coursesTable : \E p \in 1..Len(out) : out[p].ID = r.id}
      rest == S \ O
  IN  /\ O \subseteq S
      /\ Cardinality(O) = Len(out)
      /\ \A p, r \in 1..Len(out) :
           p < r => ~KeyBefore([subject |-> out[r].Subject, course_number |-> out[r].CourseNumber],
                               [subject |-> out[p].Subject, course_number |-> out[p].CourseNumber])
      /\ \E before \in SUBSET rest :
           /\ Cardinality(before) = Smaller(from, Cardinality(S))
           /\ Len(out) = Smaller(count, Cardinality(S) - Cardinality(before))
           /\ \A b \in before : \A o \in S \ before : ~KeyBefore(o, b)
           /\ \A o \in O : \A a \in rest \ before : ~KeyBefore(a, o)

\* C19 as stated: total is the number of rows matching q; with limit > 0 the
\* page holds the matches at positions offset .. offset+limit-1, which are
\* min(limit, max(0, total - offset)) rows; with limit <= 0 all matches.
C19_AsStated ==
  (searchOut.called /\ ~searchOut.err)
    => LET limit  == searchArgs.limit
           offset == searchArgs.offset
           total  == searchOut.total
           first  == IF offset < 0 THEN 0 ELSE offset
       IN  /\ total = Cardinality(Matching(searchArgs.q))
           /\ limit > 0
                => /\ IsWindow(first, offset + limit - first)
                   /\ Len(searchOut.out)
                        = Smaller(limit, IF total - offset < 0 THEN 0 ELSE total - offset)
           /\ limit <= 0 => IsWindow(0, total)

\* C19, amended: the same for offset >= 0; a negative offset gives the page
\* that offset 0 gives.
C19_Pagination ==
  (searchOut.called /\ ~searchOut.err)
    => LET limit  == searchArgs.limit
           total  == searchOut.total
           first  == IF searchArgs.offset < 0 THEN 0 ELSE searchArgs.offset
       IN  /\ total = Cardinality(Matching(searchArgs.q))
           /\ limit > 0
                => /\ IsWindow(first, limit)
                   /\ Len(searchOut.out)
                        = Smaller(limit, IF total - first < 0 THEN 0 ELSE total - first)
           /\ limit <= 0 => IsWindow(0, total)

\* a search with limit 2 and offset 1 over three matches returned the second
\* and the third of them
C19_Witness ==
  /\ searchOut.called /\ ~searchOut.err
  /\ searchArgs.limit = 2 /\ searchArgs.offset = 1
  /\ searchOut.total = 3
  /\ Len(searchOut.out) = 2
  /\ searchOut.out[2].Subject = <<"S", "E">>

\* C21: the units_required of every emitted row is the group's explicit
\* units-required value whenever that field is present, also when it is 0
\* beside a courses-required count; otherwise 3 x courses-required when that
\* count is present; otherwise 0.  It is a function of the group alone.
C21_UnitsRequiredRule ==
  ret.status = "ok" =>
    \A r \in 1..Len(ret.value.Groups) :
      \A gr \in Nodes(program) :
        gr.Heading = ret.value.Groups[r].Heading
          => ret.value.Groups[r].UnitsRequired
               = IF Len(gr.UnitsRequired) = 1 THEN gr.UnitsRequired[1]
                 ELSE IF Len(gr.CoursesRequired) = 1 THEN 3 * gr.CoursesRequired[1]
                 ELSE 0

\* a group with units_required 0 and courses_required 2 got a row with
\* units_required 0, its course completed
C21_Witness ==
  /\ ret.status = "ok"
  /\ Len(program) = 1
  /\ program[1].UnitsRequired = <<0>> /\ program[1].CoursesRequired = <<2>>
  /\ Len(ret.value.Groups) = 1
  /\ ret.value.Groups[1].UnitsRequired = 0
  /\ ret.value.Groups[1].UnitsCompleted = 3

\* C22: a slot without a course code is never treated as completed and never
\* listed as missing, whatever the plan: standing alone it leaves
\* units_completed and missing_courses as they are and the walk goes on with
\* the next slot; in an OR-chain only a member with a code can satisfy the
\* chain, and an unsatisfied chain lists only its members with a code.
C22_AdhocSlotInert ==
  /\ [][ (AtSingleSlot /\ g.Courses[i].CourseCode = <<>>)
           => /\ unitsCompleted' = unitsCompleted
              /\ missing' = missing
              /\ pc' = "slots" /\ i' = i + 1 ]_vars
  /\ [][ LET codes == CodesOf(OrChain(g.Courses, i))
         IN  (/\ AtChainStart
              /\ \E c \in 1..Len(codes) : codes[c] = <<>>
              /\ \A c \in 1..Len(codes) : codes[c] # <<>> => codes[c] \notin completedSet)
               => /\ unitsCompleted' = unitsCompleted
                  /\ missing' = missing \o NonEmpty(codes)
                  /\ pc' = "slots" /\ i' = i + Len(codes) ]_vars
  /\ [](\A p \in 1..Len(missing) : missing[p] # <<>>)

\* the code is that of no plan item, or all the plan items of the course have
\* status PLANNED, IN_PROGRESS or DROPPED
NotCompleted(code) ==
  \A j \in 1..Len(planItems) :
    TrimSpace(planItems[j].Subject \o <<" ">> \o planItems[j].CourseNumber) = code
      => planItems[j].Status \in {PLANNED, IN_PROGRESS, DROPPED}

\* C23: a course all of whose plan items have status PLANNED, IN_PROGRESS or
\* DROPPED is not in the completion index; as a single slot it adds no units
\* and is listed as missing; a chain of such courses adds no units and lists
\* all of them; and a planned course all of whose prerequisites are such
\* courses gets its warning.
C23_OnlyCompletedCounts ==
  /\ [](\A code \in completedSet : ~NotCompleted(code))
  /\ [][ (AtSingleSlot /\ g.Courses[i].CourseCode # <<>>
            /\ NotCompleted(g.Courses[i].CourseCode))
           => /\ unitsCompleted' = unitsCompleted
              /\ missing' = Append(missing, g.Courses[i].CourseCode) ]_vars
  /\ [][ LET codes == CodesOf(OrChain(g.Courses, i))
         IN  (AtChainStart /\ \A c \in 1..Len(codes) : codes[c] # <<>> /\ NotCompleted(codes[c]))
               => /\ unitsCompleted' = unitsCompleted
                  /\ missing' = missing \o codes ]_vars
  /\ [][ (/\ pc = "prereq" /\ k <= Len(planItems)
          /\ planItems[k].Status \in {PLANNED, IN_PROGRESS}
          /\ lookup[k].kind = "ok" /\ Len(lookup[k].rows) > 0
          /\ \A r \in 1..Len(lookup[k].rows) :
               NotCompleted(Code(lookup[k].rows[r].rs, lookup[k].rows[r].rn)))
           => /\ Len(prereqWarnings') = Len(prereqWarnings) + 1
              /\ prereqWarnings'[Len(prereqWarnings')].Course
                   = Code(planItems[k].Subject, planItems[k].CourseNumber) ]_vars

\* CS 1A03 is planned and CS 1B03 in progress: the chain of the two has been
\* walked, no units were added and both are missing
C23_Witness ==
  /\ pc = "slots" /\ i = 3
  /\ planItems = <<PlanItem(sCS, n1A03, PLANNED), PlanItem(sCS, n1B03, IN_PROGRESS)>>
  /\ CodesOf(g.Courses) = <<Code(sCS, n1A03), Code(sCS, n1B03)>>
  /\ g.Courses[1].IsOrWithNext
  /\ completedSet = {}
  /\ unitsCompleted = 0
  /\ missing = <<Code(sCS, n1A03), Code(sCS, n1B03)>>

\* C25: unitsFromCourseNumber returns a strictly positive integer for every
\* course number, a suffix made of a sign and a digit included.
C25_UnitsPositive ==
  pc = "returned" => units[1] > 0

\* C27: whenever units_remaining is 0, every row with units_required > 0 is
\* satisfied.
C27_NothingRemainingAllSatisfied ==
  (ret.status = "ok" /\ ret.value.UnitsRemaining = 0)
    => \A r \in 1..Len(ret.value.Groups) :
         ret.value.Groups[r].UnitsRequired > 0 => ret.value.Groups[r].Satisfied

RECURSIVE SumInferred(_)
\* the sum of the inferred unit values of a set of course codes
SumInferred(codes) ==
  IF codes = {}
    THEN 0
    ELSE LET c == CHOOSE x \in codes : TRUE
         IN  InferredUnits(c) + SumInferred(codes \ {c})

\* C28: a completed course is counted at most once: total_units_completed never
\* exceeds the sum of the inferred units of the distinct courses in the
\* completion index.
C28_CountedAtMostOnce ==
  ret.status = "ok" => ret.value.TotalUnitsCompleted <= SumInferred(completedSet)

OneMoreCompleted(p, q) ==
  \/ /\ Len(q) = Len(p) + 1
     /\ \E j \in 1..Len(q) :
          /\ q[j].Status = COMPLETED
          /\ p = SubSeq(q, 1, j - 1) \o SubSeq(q, j + 1, Len(q))
  \/ /\ Len(q) = Len(p)
     /\ \E j \in 1..Len(q) :
          /\ q[j].Status = COMPLETED
          /\ p[j].Status # COMPLETED
          /\ p = [q EXCEPT ![j].Status = p[j].Status]

\* C24: completing more courses never makes the result worse: when two
\* invocations for the same program have returned a result and the plan of the
\* second is the plan of the first with one more COMPLETED item, every row of
\* the second has at least the units_completed of the first, every group
\* satisfied in the first is satisfied in the second, and units_remaining of
\* the second is not larger.
C24_MoreCompletedNeverWorse ==
  \A a, b \in Invocations :
    (/\ a.pc = "done" /\ b.pc = "done"
     /\ a.ret.status = "ok" /\ b.ret.status = "ok"
     /\ a.program = b.program
     /\ OneMoreCompleted(a.planItems, b.planItems))
      => /\ Len(b.ret.value.Groups) = Len(a.ret.value.Groups)
         /\ \A r \in 1..Len(a.ret.value.Groups) :
              /\ b.ret.value.Groups[r].UnitsCompleted
                   >= a.ret.value.Groups[r].UnitsCompleted
              /\ a.ret.value.Groups[r].Satisfied => b.ret.value.Groups[r].Satisfied
         /\ b.ret.value.UnitsRemaining <= a.ret.value.UnitsRemaining

\* C29: through the protected routes a request with a valid access token of
\* user A never creates, reads or deletes a plan item of another user: every
\* item it adds or removes is under a term of A, the plan a GET returns holds
\* only items of A, and a handler acts only when the user id of the path is
\* the user id of the claims.
C29_OnlyOwnPlan ==
  [][ (served' = served + 1 /\ authResp'.status = 200)
        => LET A == authResp'.claims.user_id
               pathUser == Atoi(request'.user).n
           IN  /\ \A it \in plan_items' \ plan_items :
                    OwnerOf(plan_items', plan_terms', it.plan_item_id) = {A}
               /\ \A it \in plan_items \ plan_items' :
                    OwnerOf(plan_items, plan_terms, it.plan_item_id) = {A}
               /\ (request'.method = "GET" /\ response' = 200)
                    => UserPlan(plan_items, plan_terms, pathUser)
                         \subseteq UserPlan(plan_items, plan_terms, A)
               /\ response' \in {200, 201, 204} => pathUser = A ]_vars

\* C30: two calls of the POST handler of one user for the same (year_index,
\* season), no term of which existed, and two different courses, running
\* concurrently, have both answered 201 when both are done, and their two
\* plan items are under one single plan_terms row.
C30_ConcurrentPostsShareTerm ==
  \A a, b \in 1..Len(posting) :
    LET ra == posting[a].req
        rb == posting[b].req
        userID == Atoi(ra.user).n
    IN  (/\ a # b
         /\ posting[a].at = "done" /\ posting[b].at = "done"
         /\ ~BadID(ra.user) /\ rb.user = ra.user
         /\ ra.year_index = rb.year_index /\ ra.season = rb.season
         /\ ra.year_index \in 1..8 /\ ra.season \in Seasons
         /\ <<ra.subject, ra.course_number>> # <<rb.subject, rb.course_number>>
         /\ \A c \in 1..Len(posting) :
              c \notin {a, b} => posting[c].req \notin {ra, rb})
          => /\ posting[a].status = 201
             /\ posting[b].status = 201
             /\ Cardinality(SelectTerm(plan_terms, userID, ra.year_index, ra.season)) = 1
             /\ \A r \in {ra, rb} :
                  \E it \in plan_items :
                    /\ it.subject = r.subject /\ it.course_number = r.course_number
                    /\ it.plan_term_id
                         \in SelectTerm(plan_terms, userID, ra.year_index, ra.season)

====
